---- MODULE Spec2Model ----
(***************************************************************************)
(* Verification model of the dialfa-analytics engine: the reorder query    *)
(* and its Python wrapper, credit-risk scoring and labelling, ABC          *)
(* classification, stock-health classification and the cash-flow forecast  *)
(* ensemble.                                                               *)
(*                                                                         *)
(* Numbers.  SQL decimals and Python floats are modelled as exact          *)
(* rationals <<n, d>> with d > 0, kept in lowest terms; <<0, 0>> is SQL    *)
(* NULL / pandas NaN.  A product c * SQRT(r) is kept symbolically as the   *)
(* record [coef |-> c, rad |-> r]; comparisons and CEILING on such values  *)
(* are decided exactly by squaring.  Rounding of the machine arithmetic is *)
(* not modelled.                                                           *)
(***************************************************************************)
EXTENDS Integers, Sequences, FiniteSets, TLC

VARIABLES
    articulos,       \* Articulos joined with Categorias, Suppliers and sales
    reorderRows,     \* rows REORDER_ANALYSIS returned to the last call
    reorderResult,   \* value returned by the last get_reorder_analysis call
    reorderCall,     \* how the last call ended: "none", "cached", "db_error",
                     \* "type_error" or "computed"
    cache,           \* the flask cache: key -> cached value, <<>> when absent
    balances,        \* the Balances row of a customer: [Amount, Due]
    creditRows,      \* rows CREDIT_RISK_ANALYSIS returned, <<>> before the query
    creditResult,    \* what get_credit_risk_analysis returned
    creditCall,      \* how the last get_credit_risk_analysis call ended
    riskArg,         \* the row last handed to calculate_risk_score
    riskScore,       \* calculate_risk_score(riskArg), NULL before the call
    riskPct,         \* the percentage last handed to _categorize_risk
    riskLabel,       \* _categorize_risk(riskPct), "" before the call
    abcItems,        \* Articulos with the sales value of the last year
    abcRows,         \* rows the ABC query returned
    abcResult,       \* value returned by get_abc_analysis
    abcCall,         \* how get_abc_analysis ended: "none", "db_error", "computed"
    velocityItems,   \* Articulos with their order history
    velocityRows,    \* rows STOCK_VELOCITY_SUMMARY returned to the last call
    velocityResult,  \* value returned by get_stock_velocity_summary
    velocityCall,    \* how the last get_stock_velocity_summary call ended
    monthlyPayments, \* the months that hold payments, with their sums
    dfHistorical,    \* the rows of the query, sorted, of the last call
    forecastMonths,  \* forecast_months of the last get_cash_flow_forecast call
    componentForecasts, \* the four lists of the last call, <<>> if none
    loopLocals,      \* <<locals>> of the last loop iteration that ran, or <<>>
    forecastResult,  \* value returned by the last get_cash_flow_forecast call
    forecastCall,    \* how that call ended: "none", "db_error", "empty",
                     \* "type_error" or "computed"
    reorderLog,      \* the get_reorder_analysis calls completed so far whose
                     \* TTL window is still open, oldest first
    response,        \* the last answer of /api/reorder-analysis, <<>> if none
    utilCall,        \* the function of the last evaluation recorded below,
                     \* "none" before any
    utilArgs,        \* its arguments
    utilValue,       \* what it returned, with the locals the claims read
    cacheStore,      \* the entries of the flask cache written by
                     \* @cache.cached and cache.set: key -> <<value>>, or <<>>
    adminResponse    \* the last answer of a cache administration endpoint

reorderVars == <<articulos, reorderRows, reorderResult, reorderCall, cache>>

riskVars ==
    <<balances, creditRows, creditResult, creditCall, riskArg, riskScore, riskPct,
      riskLabel>>

abcVars == <<abcItems, abcRows, abcResult, abcCall>>

velocityVars == <<velocityItems, velocityRows, velocityResult, velocityCall>>

forecastVars ==
    <<monthlyPayments, dfHistorical, forecastMonths, componentForecasts, loopLocals,
      forecastResult, forecastCall>>

purchaseApiVars == <<reorderLog, response>>

utilVars == <<utilCall, utilArgs, utilValue>>

cacheAdminVars == <<cacheStore, adminResponse>>

vars ==
    <<reorderVars, riskVars, abcVars, velocityVars, forecastVars, purchaseApiVars,
      utilVars, cacheAdminVars>>

\* the variables an operation of one analytics area leaves alone
exceptReorderVars ==
    <<utilVars, cacheAdminVars,
      riskVars, abcVars, velocityVars, forecastVars, purchaseApiVars>>

exceptRiskVars ==
    <<utilVars, cacheAdminVars,
      reorderVars, abcVars, velocityVars, forecastVars, purchaseApiVars>>

exceptAbcVars ==
    <<utilVars, cacheAdminVars,
      reorderVars, riskVars, velocityVars, forecastVars, purchaseApiVars>>

exceptVelocityVars ==
    <<utilVars, cacheAdminVars,
      reorderVars, riskVars, abcVars, forecastVars, purchaseApiVars>>

exceptForecastVars ==
    <<utilVars, cacheAdminVars,
      reorderVars, riskVars, abcVars, velocityVars, purchaseApiVars>>

exceptPurchaseApiVars ==
    <<riskVars, abcVars, velocityVars, forecastVars, utilVars, cacheAdminVars>>

\* the variables of the analytics objects and of the purchase endpoints
analyticsVars ==
    <<reorderVars, riskVars, abcVars, velocityVars, forecastVars, purchaseApiVars>>

-----------------------------------------------------------------------------
(* Exact arithmetic                                                        *)

NULL == -1

RECURSIVE GCD(_, _)
\* Euclid's algorithm, two steps at a time
GCD(a, b) ==
    IF b = 0 THEN a
    ELSE IF a % b = 0 THEN b
    ELSE GCD(a % b, b % (a % b))

Abs(x) == IF x < 0 THEN -x ELSE x

Max(a, b) == IF a > b THEN a ELSE b

Min(a, b) == IF a < b THEN a ELSE b

\* the rational n/d (d # 0) in lowest terms with a positive denominator
Rat(n, d) ==
    LET g == GCD(Abs(n), Abs(d))
        s == IF d < 0 THEN -1 ELSE 1
    IN  <<s * (n \div g), s * (d \div g)>>

NaN == <<0, 0>>

IsNaN(q) == q[2] = 0

Int2Rat(k) == <<k, 1>>

\* sums are formed over the least common denominator; NaN propagates
RatAdd(a, b) ==
    IF a[2] = 0 \/ b[2] = 0 THEN NaN
    ELSE Rat(a[1] * (b[2] \div GCD(a[2], b[2])) + b[1] * (a[2] \div GCD(a[2], b[2])),
             (a[2] \div GCD(a[2], b[2])) * b[2])

RatSub(a, b) == RatAdd(a, <<-b[1], b[2]>>)

RatMul(a, b) == Rat(a[1] * b[1], a[2] * b[2])

\* a / b for b # 0
RatDiv(a, b) == Rat(a[1] * b[2], a[2] * b[1])

\* comparisons; one with NaN / NULL on either side is not true
RatLt(a, b) == a[2] # 0 /\ b[2] # 0 /\ a[1] * b[2] < b[1] * a[2]

RatLeq(a, b) == a[2] # 0 /\ b[2] # 0 /\ a[1] * b[2] <= b[1] * a[2]

RatFloor(a) == a[1] \div a[2]

\* c * SQRT(r), for rationals c >= 0 and r >= 0
Surd(c, r) == [coef |-> c, rad |-> r]

SurdSq(s) == RatMul(RatMul(s.coef, s.coef), s.rad)

\* x < s, for a rational x and a surd s
RatLtSurd(x, s) == x[1] < 0 \/ RatLt(RatMul(x, x), SurdSq(s))

\* k >= x + s, for an integer k, a rational x and a surd s
IntGeqSum(k, x, s) == ~RatLtSurd(RatSub(Int2Rat(k), x), s)

\* the least k in lo+1..hi with k >= x + s, given that lo is not and hi is
RECURSIVE CeilBisect(_, _, _, _)
CeilBisect(lo, hi, x, s) ==
    IF hi = lo + 1 THEN hi
    ELSE IF IntGeqSum((lo + hi) \div 2, x, s)
         THEN CeilBisect(lo, (lo + hi) \div 2, x, s)
         ELSE CeilBisect((lo + hi) \div 2, hi, x, s)

\* widen the search above lo (which is below x + s) until it brackets x + s
RECURSIVE CeilAbove(_, _, _, _)
CeilAbove(lo, step, x, s) ==
    IF IntGeqSum(lo + step, x, s) THEN CeilBisect(lo, lo + step, x, s)
    ELSE CeilAbove(lo + step, 2 * step, x, s)

\* CEILING(x + s): the least integer k with k >= x + s
Ceiling(x, s) ==
    IF IntGeqSum(RatFloor(x), x, s) THEN RatFloor(x)
    ELSE CeilAbove(RatFloor(x), 1, x, s)

-----------------------------------------------------------------------------
(* PurchaseQueries.REORDER_ANALYSIS                                        *)

COALESCE(x, dflt) == IF x = NULL THEN dflt ELSE x

\* ProductDemand: one row per Articulo that is not discontinued and joins
\* a Categorias row; sales columns come from a LEFT JOIN and may be NULL
ProductDemand(id, a) ==
    LET sales == COALESCE(a.Last90DaysSales, 0)
        add   == Rat(sales, 90)
    IN  [idArticulo      |-> id,
         CurrentStock    |-> a.cantidad,
         UnitPrice       |-> a.preciounitario,
         StockValue      |-> a.cantidad * a.preciounitario,
         SupplierCountry |-> a.Country,
         Last30DaysSales |-> COALESCE(a.Last30DaysSales, 0),
         Last90DaysSales |-> sales,
         AvgDailyDemand  |-> add,
         DemandStdDev    |-> IF a.Last90DaysSales # NULL /\ a.Last90DaysSales > 0
                             THEN Surd(<<3, 2>>, add)
                             ELSE Surd(<<0, 1>>, <<0, 1>>)]

InProductDemand(a) == a.hasCategoria /\ a.Discontinuado = 0

EstimatedLeadTimeDays(country) ==
    IF country = "China" THEN 60
    ELSE IF country = "India" THEN 45
    ELSE 30

\* mutant: the safety stock always takes the 30-day lead time
SafetyStock_FixedLead(country, dsd) ==
    Surd(RatMul(dsd.coef, <<165, 100>>), RatMul(dsd.rad, Int2Rat(30)))

\* DemandStdDev * SQRT(lead) * 1.65, the lead chosen by its own CASE
SafetyStock(country, dsd) ==
    LET lead == IF country = "China" THEN 60
                ELSE IF country = "India" THEN 45
                ELSE 30
    IN  Surd(RatMul(dsd.coef, <<165, 100>>), RatMul(dsd.rad, Int2Rat(lead)))

\* ReorderPoint = base + safety, again with its own CASE on the country
ReorderPoint(country, add, dsd) ==
    LET lead == IF country = "China" THEN 60
                ELSE IF country = "India" THEN 45
                ELSE 30
    IN  [base   |-> RatMul(add, Int2Rat(lead)),
         safety |-> Surd(RatMul(dsd.coef, <<165, 100>>),
                         RatMul(dsd.rad, Int2Rat(lead)))]

\* SQRT((2 * AvgDailyDemand * 365 * 100) / (UnitPrice * 0.25)), else 0
EOQ(add, price) ==
    IF add[1] > 0 /\ price > 0
    THEN Surd(<<1, 1>>,
              RatDiv(RatMul(Int2Rat(2 * 365 * 100), add), Rat(price * 25, 100)))
    ELSE Surd(<<0, 1>>, <<0, 1>>)

DaysOfCoverage(stock, add) ==
    IF add[1] > 0 THEN RatDiv(Int2Rat(stock), add) ELSE <<999, 1>>

ReorderCalculations(p) ==
    [idArticulo            |-> p.idArticulo,
     CurrentStock          |-> p.CurrentStock,
     UnitPrice             |-> p.UnitPrice,
     StockValue            |-> p.StockValue,
     SupplierCountry       |-> p.SupplierCountry,
     Last30DaysSales       |-> p.Last30DaysSales,
     Last90DaysSales       |-> p.Last90DaysSales,
     AvgDailyDemand        |-> p.AvgDailyDemand,
     DemandStdDev          |-> p.DemandStdDev,
     EstimatedLeadTimeDays |-> EstimatedLeadTimeDays(p.SupplierCountry),
     SafetyStock           |-> SafetyStock(p.SupplierCountry, p.DemandStdDev),
     ReorderPoint          |-> ReorderPoint(p.SupplierCountry, p.AvgDailyDemand,
                                            p.DemandStdDev),
     EOQ                   |-> EOQ(p.AvgDailyDemand, p.UnitPrice),
     DaysOfCoverage        |-> DaysOfCoverage(p.CurrentStock, p.AvgDailyDemand)]

\* CurrentStock < ReorderPoint
BelowReorderPoint(stock, rp) ==
    RatLtSurd(RatSub(Int2Rat(stock), rp.base), rp.safety)

\* mutant: the quantity is the CEILING of EOQ alone
SuggestedOrderQuantity_EOQOnly(r, below) ==
    IF below THEN Ceiling(<<0, 1>>, r.EOQ) ELSE 0

\* mutant: the shortfall leaves out the second SafetyStock
SuggestedOrderQuantity_NoSafety(r, below) ==
    IF below
    THEN Max(Ceiling(<<0, 1>>, r.EOQ),
             Ceiling(RatSub(r.ReorderPoint.base, Int2Rat(r.CurrentStock)),
                     r.ReorderPoint.safety))
    ELSE 0

\* CEILING of the larger of EOQ and ReorderPoint - CurrentStock + SafetyStock
\* when below the reorder point, else 0.  CEILING is monotone, so the
\* ceiling of the larger value is the larger of the two ceilings.
SuggestedOrderQuantity(r, below) ==
    IF below
    THEN Max(Ceiling(<<0, 1>>, r.EOQ),
             Ceiling(RatSub(r.ReorderPoint.base, Int2Rat(r.CurrentStock)),
                     Surd(RatAdd(r.ReorderPoint.safety.coef, r.SafetyStock.coef),
                          r.SafetyStock.rad)))
    ELSE 0

\* mutant: the coverage tiers do not look at the reorder point
Priority_CoverageOnly(doc, below) ==
    IF RatLeq(doc, <<0, 1>>) THEN "OUT_OF_STOCK"
    ELSE IF RatLeq(doc, <<15, 1>>) THEN "URGENT"
    ELSE IF RatLeq(doc, <<30, 1>>) THEN "HIGH"
    ELSE IF RatLeq(doc, <<60, 1>>) THEN "MEDIUM"
    ELSE IF below THEN "LOW"
    ELSE "ADEQUATE"

\* mutant: the LOW tier loses its guard, so no row is ADEQUATE
Priority_LowUnguarded(doc, below) ==
    IF RatLeq(doc, <<0, 1>>) THEN "OUT_OF_STOCK"
    ELSE IF below /\ RatLeq(doc, <<15, 1>>) THEN "URGENT"
    ELSE IF below /\ RatLeq(doc, <<30, 1>>) THEN "HIGH"
    ELSE IF below /\ RatLeq(doc, <<60, 1>>) THEN "MEDIUM"
    ELSE "LOW"

\* the Priority CASE; below is CurrentStock < ReorderPoint
Priority(doc, below) ==
    IF RatLeq(doc, <<0, 1>>) THEN "OUT_OF_STOCK"
    ELSE IF below /\ RatLeq(doc, <<15, 1>>) THEN "URGENT"
    ELSE IF below /\ RatLeq(doc, <<30, 1>>) THEN "HIGH"
    ELSE IF below /\ RatLeq(doc, <<60, 1>>) THEN "MEDIUM"
    ELSE IF below THEN "LOW"
    ELSE "ADEQUATE"

\* days from today to the expected stockout, NULL when not computed
ExpectedStockoutDate(r) ==
    IF r.AvgDailyDemand[1] > 0 /\ RatLt(r.DaysOfCoverage, <<999, 1>>)
    THEN RatFloor(r.DaysOfCoverage)
    ELSE NULL

\* the columns FinalCalculations adds to r; qty is the CEILING expression
\* that the query writes out twice, for the quantity and for the value
FinalColumns(r, below, qty) ==
    [idArticulo             |-> r.idArticulo,
     CurrentStock           |-> r.CurrentStock,
     UnitPrice              |-> r.UnitPrice,
     StockValue             |-> r.StockValue,
     SupplierCountry        |-> r.SupplierCountry,
     Last30DaysSales        |-> r.Last30DaysSales,
     Last90DaysSales        |-> r.Last90DaysSales,
     AvgDailyDemand         |-> r.AvgDailyDemand,
     DemandStdDev           |-> r.DemandStdDev,
     EstimatedLeadTimeDays  |-> r.EstimatedLeadTimeDays,
     SafetyStock            |-> r.SafetyStock,
     ReorderPoint           |-> r.ReorderPoint,
     EOQ                    |-> r.EOQ,
     DaysOfCoverage         |-> r.DaysOfCoverage,
     SuggestedOrderQuantity |-> qty,
     Priority               |-> Priority(r.DaysOfCoverage, below),
     ExpectedStockoutDate   |-> ExpectedStockoutDate(r),
     SuggestedOrderValue    |-> qty * r.UnitPrice]

WithOrder(r, below) == FinalColumns(r, below, SuggestedOrderQuantity(r, below))

FinalCalculations(r) ==
    WithOrder(r, BelowReorderPoint(r.CurrentStock, r.ReorderPoint))

\* mutant: the WHERE clause lets zero demand through
InFinalCalculations_NoDemandFilter(r) == r.Last90DaysSales >= 0

\* WHERE Last90DaysSales > 0
InFinalCalculations(r) == r.Last90DaysSales > 0

PriorityRank(p) ==
    CASE p = "OUT_OF_STOCK" -> 1
      [] p = "URGENT"       -> 2
      [] p = "HIGH"         -> 3
      [] p = "MEDIUM"       -> 4
      [] p = "LOW"          -> 5
      [] OTHER              -> 6

\* r1 may precede r2 under ORDER BY priority rank, DaysOfCoverage ASC
OrderByLeq(r1, r2) ==
    \/ PriorityRank(r1.Priority) < PriorityRank(r2.Priority)
    \/ /\ PriorityRank(r1.Priority) = PriorityRank(r2.Priority)
       /\ RatLeq(r1.DaysOfCoverage, r2.DaysOfCoverage)

-----------------------------------------------------------------------------
(* The reorder inputs                                                      *)

NumArticulos == 2

DemandDaysValues == {30, 90}

Countries == {"China", "India", "NULL"}

\* The sales columns are NULL together, for an Articulo without a row of the
\* sales subquery; the sales of the last 30 days are among those of the last 90.
ArticuloValues ==
    [cantidad : {0, 1, 50}, preciounitario : {100}, Discontinuado : {0},
     hasCategoria : {TRUE}, Country : Countries, Last30DaysSales : {1},
     Last90DaysSales : {1, 90, 180}]
    \cup
    [cantidad : {1, 50}, preciounitario : {0}, Discontinuado : {0},
     hasCategoria : {TRUE}, Country : {"Brazil"}, Last30DaysSales : {NULL},
     Last90DaysSales : {NULL}]
    \cup
    [cantidad : {1, 50}, preciounitario : {0}, Discontinuado : {0},
     hasCategoria : {TRUE}, Country : {"Brazil"}, Last30DaysSales : {0},
     Last90DaysSales : {0, 90}]
    \cup
    [cantidad : {50}, preciounitario : {100}, Discontinuado : {0, 1},
     hasCategoria : BOOLEAN, Country : {"Brazil"}, Last30DaysSales : {30},
     Last90DaysSales : {90}]

\* The columns of a row depend on its Articulo alone: they are tabulated
\* once, as pairs <<Articulo, row>>, for the Articulos of the model.
ReorderColumns ==
    {<<a, FinalCalculations(ReorderCalculations(ProductDemand(0, a)))>> :
        a \in ArticuloValues}

\* the row of the final SELECT for Articulo id
ReorderRow(tbl, id) ==
    [(CHOOSE p \in ReorderColumns : p[1] = tbl[id])[2] EXCEPT !.idArticulo = id]

\* ids of the Articulos that reach the final SELECT
ReorderIds(tbl) ==
    {id \in DOMAIN tbl :
        InProductDemand(tbl[id]) /\ InFinalCalculations(ReorderRow(tbl, id))}

\* the arrangements of a set of rows in a result: each row once
Arrangements(rows) ==
    {f \in [1..Cardinality(rows) -> rows] :
        \A i, j \in DOMAIN f : i # j => f[i] # f[j]}

\* the orders in which ORDER BY may return the rows: every arrangement that
\* is sorted on the two keys (rows with equal keys come in any order)
OrderBy(rows) ==
    {f \in [1..Cardinality(rows) -> rows] :
        /\ \A i, j \in DOMAIN f : i # j => f[i] # f[j]
        /\ \A i \in DOMAIN f : i + 1 \in DOMAIN f => OrderByLeq(f[i], f[i + 1])}

\* every result the query may return for the table tbl
REORDER_ANALYSIS(tbl) == OrderBy({ReorderRow(tbl, id) : id \in ReorderIds(tbl)})

-----------------------------------------------------------------------------
(* analytics/utils.py and PurchaseAnalytics.get_reorder_analysis           *)

\* mutant: format_currency accepts any number of arguments
format_currency_raises_Never(nargs) == FALSE

\* format_currency(amount, currency_symbol='$') takes one or two positional
\* arguments; a call with more raises TypeError
format_currency_raises(nargs) == nargs > 2

\* clean_dataframe: NaN/None becomes 0 in numeric columns and '' in string
\* columns; rows and their order are kept.  SupplierCountry is the nullable
\* string column of the reorder rows.
clean_dataframe(df) ==
    [i \in 1..Len(df) |->
        [df[i] EXCEPT !.SupplierCountry = IF @ = "NULL" THEN "" ELSE @]]

\* number of positional arguments of format_currency(x, '', 'SPISA')
ReorderFormatArgs == 3

\* the body of the try block once the query has returned df: the value
\* returned, and whether cache.set was reached
ReorderPostProcess(df) ==
    LET cleaned == clean_dataframe(df)
    IN  IF cleaned = <<>>
        THEN [result |-> <<>>, cached |-> FALSE]
        ELSE IF format_currency_raises(ReorderFormatArgs)
        THEN [result |-> <<>>, cached |-> FALSE]
        ELSE [result |-> cleaned, cached |-> TRUE]

-----------------------------------------------------------------------------
(* FinancialQueries.CREDIT_RISK_ANALYSIS, calculate_risk_score and         *)
(* FinancialAnalytics._categorize_risk                                     *)

\* NULLIF(x, 0) as a rational
NULLIF0(x) == IF x = 0 THEN NaN ELSE Int2Rat(x)

\* the SELECT list for one Balances row
CreditRiskRow(b) ==
    [CurrentBalance    |-> Int2Rat(b.Amount),
     OverdueAmount     |-> b.Due,
     OverduePercentage |-> IF IsNaN(NULLIF0(b.Amount)) THEN NaN
                           ELSE RatMul(RatDiv(Int2Rat(b.Due), NULLIF0(b.Amount)),
                                       Int2Rat(100)),
     RiskLevel         |-> IF RatLt(RatMul(Int2Rat(b.Amount), <<5, 10>>),
                                    Int2Rat(b.Due))
                           THEN "HIGH RISK"
                           ELSE IF RatLt(RatMul(Int2Rat(b.Amount), <<2, 10>>),
                                         Int2Rat(b.Due))
                           THEN "MEDIUM RISK"
                           ELSE "LOW RISK"]

\* the query on the one-row table: WHERE b.Amount > 1000 (the ORDER BY has
\* nothing to arrange)
CREDIT_RISK_ANALYSIS(b) ==
    IF b.Amount > 1000 THEN <<CreditRiskRow(b)>> ELSE <<>>

\* row.get(key, dflt)
Get(row, key, dflt) == IF key \in DOMAIN row THEN row[key] ELSE dflt

\* mutant: the top overdue bucket gives 30 points
OverduePoints_Top30(overdue_pct) ==
    IF RatLt(<<50, 1>>, overdue_pct) THEN 30
    ELSE IF RatLt(<<20, 1>>, overdue_pct) THEN 20
    ELSE IF RatLt(<<10, 1>>, overdue_pct) THEN 10
    ELSE 0

\* the points of the overdue percentage
OverduePoints(overdue_pct) ==
    IF RatLt(<<50, 1>>, overdue_pct) THEN 40
    ELSE IF RatLt(<<20, 1>>, overdue_pct) THEN 20
    ELSE IF RatLt(<<10, 1>>, overdue_pct) THEN 10
    ELSE 0

\* the points of the balance
BalancePoints(balance) ==
    IF RatLt(<<1000000, 1>>, balance) THEN 30
    ELSE IF RatLt(<<500000, 1>>, balance) THEN 20
    ELSE IF RatLt(<<100000, 1>>, balance) THEN 10
    ELSE 0

calculate_risk_score(row) ==
    Min(OverduePoints(Get(row, "OverduePercentage", <<0, 1>>))
          + BalancePoints(Get(row, "CurrentBalance", <<0, 1>>)),
        100)

\* mutant: the label is taken from the thresholds of the score (> 10)
_categorize_risk_ScoreThresholds(overdue_percentage) ==
    IF IsNaN(overdue_percentage) THEN "LOW RISK"
    ELSE IF RatLt(<<50, 1>>, overdue_percentage) THEN "HIGH RISK"
    ELSE IF RatLt(<<10, 1>>, overdue_percentage) THEN "MEDIUM RISK"
    ELSE "LOW RISK"

_categorize_risk(overdue_percentage) ==
    IF IsNaN(overdue_percentage) THEN "LOW RISK"
    ELSE IF RatLt(<<50, 1>>, overdue_percentage) THEN "HIGH RISK"
    ELSE IF RatLt(<<20, 1>>, overdue_percentage) THEN "MEDIUM RISK"
    ELSE "LOW RISK"

(* The credit-risk inputs *)

BalanceValues ==
    [Amount : {2000}, Due : {400, 401, 1000, 1001}]
    \cup [Amount : {1000, 1200000}, Due : {720000}]

PercentageValues ==
    {<<0, 1>>, <<10, 1>>, <<21, 2>>, <<20, 1>>, <<41, 2>>, <<50, 1>>, <<101, 2>>,
     <<60, 1>>, <<120, 1>>, NaN}

RiskBalanceValues ==
    {<<0, 1>>, <<100000, 1>>, <<100001, 1>>, <<500000, 1>>, <<1000001, 2>>,
     <<1000000, 1>>, <<1200000, 1>>}

\* rows with both fields, with one of them, and with none
RiskArgValues ==
    {<<>>}
    \cup {[OverduePercentage |-> p] : p \in PercentageValues}
    \cup {[CurrentBalance |-> b] : b \in RiskBalanceValues}
    \cup {[OverduePercentage |-> p, CurrentBalance |-> b] :
             p \in PercentageValues, b \in RiskBalanceValues}

-----------------------------------------------------------------------------
(* InventoryAnalytics.get_abc_analysis                                     *)

\* one row of the InventoryValue CTE
InventoryValue(id, a) ==
    [IdArticulo |-> id, SalesValue |-> COALESCE(a.SalesValue, 0)]

\* WHERE a.cantidad > 0 AND a.Discontinuado = 0
InInventoryValue(a) == a.cantidad > 0 /\ a.Discontinuado = 0

\* ORDER BY SalesValue DESC
AbcOrderLeq(r1, r2) == r1.SalesValue >= r2.SalesValue

\* every result abc_query may return for the table tbl
abc_query(tbl) ==
    {f \in Arrangements({InventoryValue(id, tbl[id]) :
                            id \in {i \in DOMAIN tbl : InInventoryValue(tbl[i])}}) :
        \A i \in DOMAIN f : i + 1 \in DOMAIN f => AbcOrderLeq(f[i], f[i + 1])}

RECURSIVE SumInt(_)
\* df['SalesValue'].sum()
SumInt(s) ==
    IF Len(s) = 0 THEN 0
    ELSE IF Len(s) = 1 THEN s[1]
    ELSE SumInt(SubSeq(s, 1, Len(s) \div 2))
            + SumInt(SubSeq(s, (Len(s) \div 2) + 1, Len(s)))

RECURSIVE SumRat(_)
\* the sum of a series of rationals
SumRat(s) ==
    IF Len(s) = 0 THEN <<0, 1>>
    ELSE IF Len(s) = 1 THEN s[1]
    ELSE RatAdd(SumRat(SubSeq(s, 1, Len(s) \div 2)),
                SumRat(SubSeq(s, (Len(s) \div 2) + 1, Len(s))))

\* mutant: without sales every share is 100
SalesPercentage_FallbackHundred(value, total_sales_value) ==
    IF total_sales_value > 0
    THEN RatMul(RatDiv(Int2Rat(value), Int2Rat(total_sales_value)), <<100, 1>>)
    ELSE <<100, 1>>

\* df['SalesValue'] / total_sales_value * 100 if total_sales_value > 0 else 0
SalesPercentage(value, total_sales_value) ==
    IF total_sales_value > 0
    THEN RatMul(RatDiv(Int2Rat(value), Int2Rat(total_sales_value)), <<100, 1>>)
    ELSE <<0, 1>>

\* mutant: each row gets the sum of the rows before it
cumsum_Exclusive(s) == [i \in DOMAIN s |-> SumRat(SubSeq(s, 1, i - 1))]

\* Series.cumsum()
cumsum(s) == [i \in DOMAIN s |-> SumRat(SubSeq(s, 1, i))]

\* mutant: the B tier ends at 90
_assign_abc_category_B90(cumulative_percentage) ==
    IF RatLeq(cumulative_percentage, <<80, 1>>) THEN "A"
    ELSE IF RatLeq(cumulative_percentage, <<90, 1>>) THEN "B"
    ELSE "C"

_assign_abc_category(cumulative_percentage) ==
    IF RatLeq(cumulative_percentage, <<80, 1>>) THEN "A"
    ELSE IF RatLeq(cumulative_percentage, <<95, 1>>) THEN "B"
    ELSE "C"

\* format_currency is applied with the amount alone
AbcFormatArgs == 1

\* the columns added to the rows of the query
AbcColumns(df, pcts, cums) ==
    [i \in DOMAIN df |->
        [IdArticulo           |-> df[i].IdArticulo,
         SalesValue           |-> df[i].SalesValue,
         SalesPercentage      |-> pcts[i],
         CumulativePercentage |-> cums[i],
         ABCCategory          |-> _assign_abc_category(cums[i])]]

\* the percentages of the rows df whose SalesValue sums to total
AbcPercentages(df, total) ==
    [i \in DOMAIN df |-> SalesPercentage(df[i].SalesValue, total)]

\* the body of the try block once the query has returned df
AbcPostProcess(df) ==
    IF df = <<>> THEN <<>>
    ELSE IF format_currency_raises(AbcFormatArgs) THEN <<>>
    ELSE AbcColumns(df,
                    AbcPercentages(df, SumInt([i \in DOMAIN df |-> df[i].SalesValue])),
                    cumsum(AbcPercentages(df, SumInt([i \in DOMAIN df |-> df[i].SalesValue]))))

(* The ABC inputs *)

NumAbcItems == 3

AbcItemValues ==
    [cantidad : {1}, Discontinuado : {0}, SalesValue : {NULL, 0, 1, 3, 16}]
    \cup [cantidad : {0}, Discontinuado : {0}, SalesValue : {16}]
    \cup [cantidad : {1}, Discontinuado : {1}, SalesValue : {16}]

-----------------------------------------------------------------------------
(* InventoryQueries.STOCK_VELOCITY_SUMMARY and get_stock_velocity_summary  *)

\* the join keeps an item without order lines (one row of NULLs) and an item
\* with an order line of the last two years; an item whose order lines are all
\* older has no row left
InVelocityAnalysis(a) ==
    /\ a.hasCategoria
    /\ a.Discontinuado = 0
    /\ a.sales.kind # "old"

\* COALESCE(SUM(npi.Cantidad) / NULLIF(DATEDIFF(MONTH, MIN(...), GETDATE()), 0), 0)
AvgMonthlySales(sales) ==
    IF sales.kind = "none" \/ sales.Months = 0
    THEN <<0, 1>>
    ELSE RatDiv(Int2Rat(sales.TotalSold), Int2Rat(sales.Months))

\* the order lines of the model's items all lie in the last three months
Last12MonthsSales(sales) == IF sales.kind = "none" THEN 0 ELSE sales.TotalSold

VelocityAnalysis(id, a) ==
    [IdArticulo        |-> id,
     CurrentStock      |-> a.cantidad,
     UnitPrice         |-> a.preciounitario,
     Last12MonthsSales |-> Last12MonthsSales(a.sales),
     AvgMonthlySales   |-> AvgMonthlySales(a.sales)]

\* CurrentStock / NULLIF(AvgMonthlySales, 0)
StockPerMonthlySales(stock, avg) ==
    IF avg = <<0, 1>> THEN NaN ELSE RatDiv(Int2Rat(stock), avg)

MonthsOfStock(stock, avg) ==
    IF stock > 0 /\ RatLt(<<0, 1>>, avg)
    THEN RatDiv(Int2Rat(stock), avg)
    ELSE <<999, 1>>

\* mutant: the dead-stock rule is tried first, on the sales alone
StockHealthStatus_DeadStockFirst(stock, avg) ==
    IF avg = <<0, 1>> THEN "DEAD_STOCK"
    ELSE IF stock = 0 THEN "OUT_OF_STOCK"
    ELSE IF RatLt(StockPerMonthlySales(stock, avg), <<1, 1>>) THEN "LOW_STOCK"
    ELSE IF RatLt(<<6, 1>>, StockPerMonthlySales(stock, avg)) THEN "OVERSTOCK"
    ELSE "HEALTHY"

StockHealthStatus(stock, avg) ==
    IF stock = 0 THEN "OUT_OF_STOCK"
    ELSE IF avg = <<0, 1>> /\ stock > 0 THEN "DEAD_STOCK"
    ELSE IF RatLt(StockPerMonthlySales(stock, avg), <<1, 1>>) THEN "LOW_STOCK"
    ELSE IF RatLt(<<6, 1>>, StockPerMonthlySales(stock, avg)) THEN "OVERSTOCK"
    ELSE "HEALTHY"

\* the final SELECT over one row of VelocityAnalysis
VelocityColumns(v) ==
    [IdArticulo        |-> v.IdArticulo,
     CurrentStock      |-> v.CurrentStock,
     AvgMonthlySales   |-> v.AvgMonthlySales,
     MonthsOfStock     |-> MonthsOfStock(v.CurrentStock, v.AvgMonthlySales),
     StockHealthStatus |-> StockHealthStatus(v.CurrentStock, v.AvgMonthlySales),
     StockValue        |-> v.CurrentStock * v.UnitPrice,
     AnnualSalesValue  |-> v.Last12MonthsSales * v.UnitPrice]

\* ORDER BY AnnualSalesValue DESC, StockValue DESC
VelocityOrderLeq(r1, r2) ==
    \/ r1.AnnualSalesValue > r2.AnnualSalesValue
    \/ r1.AnnualSalesValue = r2.AnnualSalesValue /\ r1.StockValue >= r2.StockValue

\* every result the query may return for the table tbl: WHERE CurrentStock >= 0
STOCK_VELOCITY_SUMMARY(tbl) ==
    {f \in Arrangements({VelocityColumns(VelocityAnalysis(id, tbl[id])) :
                            id \in {i \in DOMAIN tbl :
                                      /\ InVelocityAnalysis(tbl[i])
                                      /\ tbl[i].cantidad >= 0}}) :
        \A i \in DOMAIN f : i + 1 \in DOMAIN f => VelocityOrderLeq(f[i], f[i + 1])}

\* number of positional arguments of format_currency(x, 'USD', 'SPISA')
VelocityFormatArgs == 3

(* The stock velocity inputs *)

NumVelocityItems == 2

SalesValues ==
    {[kind |-> "none", TotalSold |-> 0, Months |-> 0],
     [kind |-> "recent", TotalSold |-> 4, Months |-> 2],
     [kind |-> "recent", TotalSold |-> 4, Months |-> 0],
     [kind |-> "old", TotalSold |-> 4, Months |-> 30]}

VelocityItemValues ==
    [cantidad : {-1, 0, 1, 2, 12, 13}, preciounitario : {100},
     Discontinuado : {0}, hasCategoria : {TRUE}, sales : SalesValues]
    \cup
    [cantidad : {1}, preciounitario : {100}, Discontinuado : {0, 1},
     hasCategoria : BOOLEAN,
     sales : {[kind |-> "recent", TotalSold |-> 4, Months |-> 2]}]

-----------------------------------------------------------------------------
(* FinancialQueries.CASH_FLOW_FORECAST and the forecasting algorithms      *)

\* a calendar month as a count of months, and back
MonthIndex(r) == r.Year * 12 + (r.Month - 1)

YearOf(k) == k \div 12

MonthOf(k) == (k % 12) + 1

\* rows arranged by ascending (Year, Month); the keys are distinct
SortByYearMonth(rows) ==
    [i \in 1..Cardinality(rows) |->
        CHOOSE r \in rows :
            Cardinality({q \in rows : MonthIndex(q) < MonthIndex(r)}) = i - 1]

\* GROUP BY YEAR, MONTH ... ORDER BY Year, Month over the months that hold a
\* payment (PaymentAmount > 0)
CASH_FLOW_FORECAST(payments) == SortByYearMonth(payments)

\* clean_dataframe on the rows of the query
CleanPayments(df) ==
    [i \in DOMAIN df |->
        [df[i] EXCEPT !.ActualPayments = IF @ = NULL THEN 0 ELSE @]]

\* df_historical.sort_values(['Year', 'Month'])
sort_values(df) == SortByYearMonth({df[i] : i \in DOMAIN df})

\* last_date + pd.DateOffset(months=i) for i = 1 .. forecast_months
FutureDates(df, forecast_months) ==
    [i \in 1..forecast_months |->
        [Year  |-> YearOf(MonthIndex(df[Len(df)]) + i),
         Month |-> MonthOf(MonthIndex(df[Len(df)]) + i)]]

\* df_historical['ActualPayments'].values
ActualPayments(df) == [i \in DOMAIN df |-> Int2Rat(df[i].ActualPayments)]

\* Series.mean(); NaN for an empty series
Mean(y) == IF Len(y) = 0 THEN NaN ELSE RatDiv(SumRat(y), Int2Rat(Len(y)))

\* mutant: no clamp
ClampZero_Off(x) == x

\* max(x, 0) and np.maximum(x, 0)
ClampZero(x) == IF RatLt(x, <<0, 1>>) THEN <<0, 1>> ELSE x

\* np.polyfit(x, y, 1) for x = 0 .. N-1: the least squares line
polyfit(y) ==
    LET N   == Len(y)
        Sx  == SumInt([i \in 1..N |-> i - 1])
        Sxx == SumInt([i \in 1..N |-> (i - 1) * (i - 1)])
        Sy  == SumRat(y)
        Sxy == SumRat([i \in 1..N |-> RatMul(Int2Rat(i - 1), y[i])])
        slope == RatDiv(RatSub(RatMul(Int2Rat(N), Sxy), RatMul(Int2Rat(Sx), Sy)),
                        Int2Rat(N * Sxx - Sx * Sx))
    IN  [slope     |-> slope,
         intercept |-> RatDiv(RatSub(Sy, RatMul(slope, Int2Rat(Sx))), Int2Rat(N))]

LinearProjection(fit, N, H) ==
    [i \in 1..H |->
        ClampZero(RatAdd(RatMul(fit.slope, Int2Rat(N + i - 1)), fit.intercept))]

_linear_trend_forecast(y, H) ==
    IF Len(y) < 2
    THEN [i \in 1..H |-> Mean(y)]
    ELSE LinearProjection(polyfit(y), Len(y), H)

\* mutant: a month that is not in the history gets the factor 0
SeasonalFactor_MissingMonthZero(df, month_num) ==
    IF \E i \in DOMAIN df : df[i].Month = month_num
    THEN RatDiv(Mean(ActualPayments(SelectSeq(df, LAMBDA r : r.Month = month_num))),
                Mean(ActualPayments(df)))
    ELSE <<0, 1>>

\* monthly_avg / overall_avg for a month of the history, 1.0 for another
SeasonalFactor(df, month_num) ==
    IF \E i \in DOMAIN df : df[i].Month = month_num
    THEN RatDiv(Mean(ActualPayments(SelectSeq(df, LAMBDA r : r.Month = month_num))),
                Mean(ActualPayments(df)))
    ELSE <<1, 1>>

SeasonalAdjust(df, future, trend_forecasts) ==
    [i \in DOMAIN future |->
        ClampZero(RatMul(trend_forecasts[i], SeasonalFactor(df, future[i].Month)))]

_seasonal_forecast(df, future) ==
    IF Len(df) < 12
    THEN _linear_trend_forecast(ActualPayments(df), Len(future))
    ELSE SeasonalAdjust(df, future,
                        _linear_trend_forecast(ActualPayments(df), Len(future)))

\* the smoothing parameter
alpha == <<3, 10>>

RECURSIVE SmoothedFrom(_, _, _, _)
\* smoothed[i], given that smoothed[k] is prev
SmoothedFrom(values, k, i, prev) ==
    IF k = i \/ IsNaN(prev) THEN prev
    ELSE SmoothedFrom(values, k + 1, i,
                      RatAdd(RatMul(alpha, values[k + 1]),
                             RatMul(RatSub(<<1, 1>>, alpha), prev)))

\* smoothed[i]: smoothed[1] is values[1]
Smoothed(values, i) == SmoothedFrom(values, 1, i, values[1])

ExponentialProjection(last_smoothed, recent_trend, H) ==
    [i \in 1..H |->
        ClampZero(RatAdd(last_smoothed, RatMul(recent_trend, Int2Rat(i))))]

\* mutant: the trend is taken over the last two smoothed values
_exponential_smoothing_forecast_TrendOverLastTwo(values, H) ==
    IF Len(values) = 0
    THEN [i \in 1..H |-> <<0, 1>>]
    ELSE ExponentialProjection(
             Smoothed(values, Len(values)),
             IF Len(values) >= 3
             THEN RatDiv(RatSub(Smoothed(values, Len(values)),
                                Smoothed(values, Len(values) - 1)),
                         <<2, 1>>)
             ELSE <<0, 1>>,
             H)

_exponential_smoothing_forecast(values, H) ==
    IF Len(values) = 0
    THEN [i \in 1..H |-> <<0, 1>>]
    ELSE ExponentialProjection(
             Smoothed(values, Len(values)),
             IF Len(values) >= 3
             THEN RatDiv(RatSub(Smoothed(values, Len(values)),
                                Smoothed(values, Len(values) - 2)),
                         <<2, 1>>)
             ELSE <<0, 1>>,
             H)

\* Series.tail(n)
TailSeq(y, n) == SubSeq(y, Max(1, Len(y) - n + 1), Len(y))

\* the growth rates of the transitions whose prior value is > 0
GrowthRates(recent_values) ==
    LET idx == SelectSeq([i \in 1..(Len(recent_values) - 1) |-> i + 1],
                         LAMBDA i : RatLt(<<0, 1>>, recent_values[i - 1]))
    IN  [k \in DOMAIN idx |->
            RatDiv(RatSub(recent_values[idx[k]], recent_values[idx[k] - 1]),
                   recent_values[idx[k] - 1])]

AvgGrowthRate(recent_values) ==
    IF Len(recent_values) >= 2 /\ GrowthRates(recent_values) # <<>>
    THEN Mean(GrowthRates(recent_values))
    ELSE <<0, 1>>

RECURSIVE Compound(_, _, _)
\* current_value after i multiplications by (1 + avg_growth_rate)
Compound(moving_avg, avg_growth_rate, i) ==
    IF i = 0 THEN moving_avg
    ELSE RatMul(Compound(moving_avg, avg_growth_rate, i - 1),
                RatAdd(<<1, 1>>, avg_growth_rate))

\* mutant: the fallback to the mean is taken below two months, not three
_moving_average_forecast_FallbackBelowTwo(y, H) ==
    IF Len(y) < 2
    THEN [i \in 1..H |-> Mean(y)]
    ELSE [i \in 1..H |->
             ClampZero(Compound(Mean(TailSeq(y, Min(6, Len(y)))),
                                AvgGrowthRate(TailSeq(y, 6)), i))]

\* mutant: the first future month is the moving average itself
_moving_average_forecast_GrowthFromSecondMonth(y, H) ==
    IF Len(y) < 3
    THEN [i \in 1..H |-> Mean(y)]
    ELSE [i \in 1..H |->
             ClampZero(Compound(Mean(TailSeq(y, Min(6, Len(y)))),
                                AvgGrowthRate(TailSeq(y, 6)), i - 1))]

_moving_average_forecast(y, H) ==
    IF Len(y) < 3
    THEN [i \in 1..H |-> Mean(y)]
    ELSE [i \in 1..H |->
             ClampZero(Compound(Mean(TailSeq(y, Min(6, Len(y)))),
                                AvgGrowthRate(TailSeq(y, 6)), i))]

\* the four lists _apply_forecasting_algorithms computes before its loop
ComponentForecasts(df, future) ==
    [trend          |-> _linear_trend_forecast(ActualPayments(df), Len(future)),
     seasonal       |-> _seasonal_forecast(df, future),
     exponential    |-> _exponential_smoothing_forecast(ActualPayments(df), Len(future)),
     moving_average |-> _moving_average_forecast(ActualPayments(df), Len(future))]

\* x[i] if i < len(x) else 0
ValueAt(x, i) == IF i \in DOMAIN x THEN x[i] ELSE <<0, 1>>

\* mutant: the moving average weighs 0.25, so the weights sum to 1.1
ensemble_forecast_WeightsAboveOne(c, i) ==
    RatAdd(RatAdd(RatMul(ValueAt(c.trend, i), <<25, 100>>),
                  RatMul(ValueAt(c.seasonal, i), <<35, 100>>)),
           RatAdd(RatMul(ValueAt(c.exponential, i), <<25, 100>>),
                  RatMul(ValueAt(c.moving_average, i), <<25, 100>>)))

ensemble_forecast(c, i) ==
    RatAdd(RatAdd(RatMul(ValueAt(c.trend, i), <<25, 100>>),
                  RatMul(ValueAt(c.seasonal, i), <<35, 100>>)),
           RatAdd(RatMul(ValueAt(c.exponential, i), <<25, 100>>),
                  RatMul(ValueAt(c.moving_average, i), <<15, 100>>)))

\* the values the loop body computes for the i-th future month before it
\* builds the record
LoopLocals(c, i) ==
    [trend_value       |-> ValueAt(c.trend, i),
     seasonal_value    |-> ValueAt(c.seasonal, i),
     exponential_value |-> ValueAt(c.exponential, i),
     moving_avg_value  |-> ValueAt(c.moving_average, i),
     ensemble_forecast |-> ensemble_forecast(c, i),
     confidence_lower  |-> RatMul(ensemble_forecast(c, i), <<85, 100>>),
     confidence_upper  |-> RatMul(ensemble_forecast(c, i), <<115, 100>>)]

\* the record appended for the i-th future month
ForecastPoint(future, c, i) ==
    [Year               |-> future[i].Year,
     Month              |-> future[i].Month,
     ActualPayments     |-> NULL,
     ForecastedPayments |-> LoopLocals(c, i).ensemble_forecast,
     IsHistorical       |-> FALSE,
     ConfidenceInterval |-> [lower |-> LoopLocals(c, i).confidence_lower,
                             upper |-> LoopLocals(c, i).confidence_upper],
     ComponentForecasts |-> [trend          |-> LoopLocals(c, i).trend_value,
                             seasonal       |-> LoopLocals(c, i).seasonal_value,
                             exponential    |-> LoopLocals(c, i).exponential_value,
                             moving_average |-> LoopLocals(c, i).moving_avg_value]]

\* the record appended for a month of the historical context
HistoricalPoint(row) ==
    [Year               |-> row.Year,
     Month              |-> row.Month,
     ActualPayments     |-> Int2Rat(row.ActualPayments),
     ForecastedPayments |-> NULL,
     IsHistorical       |-> TRUE,
     ConfidenceInterval |-> NULL,
     ComponentForecasts |-> NULL]

\* number of positional arguments of format_currency(x, '$', 'SPISA')
ForecastFormatArgs == 3

\* get_cash_flow_forecast once the query has returned the non-empty df: how
\* the call ends, what it returns, and the locals of the last loop iteration
\* that ran
ForecastPostProcess(df, future, c) ==
    IF Len(future) >= 1 /\ format_currency_raises(ForecastFormatArgs)
    THEN [call |-> "type_error", result |-> <<>>, locals |-> <<LoopLocals(c, 1)>>]
    ELSE IF format_currency_raises(ForecastFormatArgs)
    THEN [call |-> "type_error", result |-> <<>>, locals |-> <<>>]
    ELSE [call   |-> "computed",
          result |-> [i \in DOMAIN TailSeq(df, 6) |-> HistoricalPoint(TailSeq(df, 6)[i])]
                     \o [i \in DOMAIN future |-> ForecastPoint(future, c, i)],
          locals |-> IF Len(future) >= 1 THEN <<LoopLocals(c, Len(future))>>
                     ELSE <<>>]

(* The forecast inputs *)

MaxHistory == 3

Amounts == {1, 4, 8}

HorizonValues == {0, 1, 3}

\* the month of the last payment: November 2024
LastMonth == 2024 * 12 + 10

PaymentRow(k, amount) ==
    [Year |-> YearOf(k), Month |-> MonthOf(k), ActualPayments |-> amount]

\* n consecutive months up to LastMonth
ShortHistories ==
    UNION {{{PaymentRow(LastMonth - n + i, amounts[i]) : i \in 1..n} :
               amounts \in [1..n -> Amounts]} : n \in 0..MaxHistory}

\* a year and more of payments, level but for two months
LongAmount(i) == IF i = 2 THEN 20 ELSE IF i = 3 THEN 3 ELSE 10

LongHistories ==
    {{PaymentRow(LastMonth - 12 + i, 10) : i \in 1..12},
     {PaymentRow(LastMonth - 12 + i, LongAmount(i)) : i \in 1..12},
     {PaymentRow(LastMonth - 12, 10)}
        \cup {PaymentRow(LastMonth - 12 + i, LongAmount(i)) : i \in 2..12},
     {PaymentRow(LastMonth - 24 + i, LongAmount(i)) : i \in 1..24}}

\* four months of 100 each
ExampleHistories == {{PaymentRow(LastMonth - 4 + i, 100) : i \in 1..4}}

MonthlyPaymentsValues == ShortHistories \cup LongHistories \cup ExampleHistories

-----------------------------------------------------------------------------
(* The analytics objects after construction, before any call               *)

IdleReorder ==
    /\ articulos = <<>>
    /\ reorderRows = <<>>
    /\ reorderResult = <<>>
    /\ reorderCall = "none"
    /\ cache = <<>>

IdleRisk ==
    /\ balances = [Amount |-> 0, Due |-> 0]
    /\ creditRows = <<>>
    /\ creditResult = <<>>
    /\ creditCall = "none"
    /\ riskArg = <<>>
    /\ riskScore = NULL
    /\ riskPct = NaN
    /\ riskLabel = ""

IdleAbc ==
    /\ abcItems = <<>>
    /\ abcRows = <<>>
    /\ abcResult = <<>>
    /\ abcCall = "none"

IdleVelocity ==
    /\ velocityItems = <<>>
    /\ velocityRows = <<>>
    /\ velocityResult = <<>>
    /\ velocityCall = "none"

IdleForecast ==
    /\ monthlyPayments = {}
    /\ dfHistorical = <<>>
    /\ forecastMonths = 0
    /\ componentForecasts = <<>>
    /\ loopLocals = <<>>
    /\ forecastResult = <<>>
    /\ forecastCall = "none"

IdlePurchaseApi ==
    /\ reorderLog = <<>>
    /\ response = <<>>

IdleUtil ==
    /\ utilCall = "none"
    /\ utilArgs = <<>>
    /\ utilValue = <<>>

IdleCacheAdmin ==
    /\ cacheStore = <<>>
    /\ adminResponse = <<>>

-----------------------------------------------------------------------------
(* PurchaseAnalytics: construction and calls                               *)

InitReorder ==
    /\ IdlePurchaseApi
    /\ IdleUtil
    /\ IdleCacheAdmin
    /\ IdleRisk
    /\ IdleAbc
    /\ IdleVelocity
    /\ IdleForecast
    /\ articulos \in [1..NumArticulos -> ArticuloValues]
    /\ reorderRows = <<>>
    /\ reorderResult = <<>>
    /\ reorderCall = "none"
    /\ cache = [d \in DemandDaysValues |-> <<>>]

\* how a call ends once the query has returned df
ReorderCallKind(df) ==
    IF ReorderPostProcess(df).result = <<>> /\ df # <<>> THEN "type_error"
    ELSE "computed"

\* The ways get_reorder_analysis(demand_days) may end on the table tbl with
\* the cache cch: the rows the query returned, the value returned, how the
\* call ended and the cache it leaves.  dbUp is whether execute_query
\* answers; the query text does not depend on demand_days.
ReorderCall(tbl, cch, demand_days, dbUp) ==
    IF cch[demand_days] # <<>>
    THEN {[rows |-> <<>>, result |-> cch[demand_days], call |-> "cached",
           cache |-> cch]}
    ELSE IF ~dbUp
    THEN {[rows |-> <<>>, result |-> <<>>, call |-> "db_error", cache |-> cch]}
    ELSE {[rows   |-> df,
           result |-> ReorderPostProcess(df).result,
           call   |-> ReorderCallKind(df),
           cache  |-> IF ReorderPostProcess(df).cached
                      THEN [cch EXCEPT ![demand_days] = ReorderPostProcess(df).result]
                      ELSE cch] : df \in REORDER_ANALYSIS(tbl)}

\* get_reorder_analysis(demand_days) on the PurchaseAnalytics object
get_reorder_analysis(demand_days, dbUp) ==
    \E o \in ReorderCall(articulos, cache, demand_days, dbUp) :
        /\ reorderRows' = o.rows
        /\ reorderResult' = o.result
        /\ reorderCall' = o.call
        /\ cache' = o.cache
        /\ UNCHANGED articulos

GetReorderAnalysis ==
    /\ \E d \in DemandDaysValues, dbUp \in BOOLEAN : get_reorder_analysis(d, dbUp)
    /\ UNCHANGED exceptReorderVars

NextReorder == GetReorderAnalysis

SpecReorder == InitReorder /\ [][NextReorder]_vars

-----------------------------------------------------------------------------
(* Claims about the reorder analysis                                       *)

\* the query answered the last call, so reorderRows is its result
QueryAnswered == reorderCall \in {"type_error", "computed"}

\* CurrentStock < ReorderPoint, read off the columns of an output row
RowBelowReorderPoint(r) ==
    RatLtSurd(RatSub(Int2Rat(r.CurrentStock), r.ReorderPoint.base),
              r.ReorderPoint.safety)

\* C1: in every row of the reorder analysis output, SuggestedOrderQuantity > 0
\* holds exactly when CurrentStock < ReorderPoint, and it is 0 exactly when
\* CurrentStock >= ReorderPoint.
C1_OrderIffBelowReorderPoint ==
    \A i \in DOMAIN reorderRows :
        /\ reorderRows[i].Last90DaysSales > 0
        /\ reorderRows[i].SuggestedOrderQuantity >= 0
        /\ (reorderRows[i].SuggestedOrderQuantity > 0)
              <=> RowBelowReorderPoint(reorderRows[i])

C1_Witness ==
    /\ QueryAnswered
    /\ \E i, j \in DOMAIN reorderRows :
          /\ reorderRows[i].SuggestedOrderQuantity > 0
          /\ RowBelowReorderPoint(reorderRows[i])
          /\ reorderRows[j].SuggestedOrderQuantity = 0
          /\ ~RowBelowReorderPoint(reorderRows[j])

\* the tier the days of coverage alone would give
CoverageTier(doc) ==
    IF RatLeq(doc, <<15, 1>>) THEN "URGENT"
    ELSE IF RatLeq(doc, <<30, 1>>) THEN "HIGH"
    ELSE IF RatLeq(doc, <<60, 1>>) THEN "MEDIUM"
    ELSE "LOW"

\* the item of the worked example: stock 50, 180 sold in 90 days, China
IsExampleItem(r) ==
    r.CurrentStock = 50 /\ r.Last90DaysSales = 180 /\ r.SupplierCountry = "China"

\* C6 as stated: the priority follows the days of coverage (<= 0, <= 15,
\* <= 30, <= 60) and only beyond 60 days does the reorder point decide
\* between LOW and ADEQUATE.
C6_PriorityByCoverageAlone ==
    \A i \in DOMAIN reorderRows :
        LET r == reorderRows[i]
        IN  r.Priority =
               IF RatLeq(r.DaysOfCoverage, <<0, 1>>) THEN "OUT_OF_STOCK"
               ELSE IF RatLeq(r.DaysOfCoverage, <<60, 1>>)
                    THEN CoverageTier(r.DaysOfCoverage)
               ELSE IF RowBelowReorderPoint(r) THEN "LOW"
               ELSE "ADEQUATE"

\* C6 amended: OUT_OF_STOCK when the days of coverage are <= 0; otherwise
\* ADEQUATE whenever CurrentStock >= ReorderPoint; otherwise URGENT, HIGH,
\* MEDIUM or LOW by days of coverage <= 15, <= 30, <= 60 or more.  The
\* example item (stock 50, sales 180, China) gets HIGH or more urgent.
C6_PriorityByCoverageBelowReorderPoint ==
    \A i \in DOMAIN reorderRows :
        LET r == reorderRows[i]
        IN  /\ r.Priority =
                  IF RatLeq(r.DaysOfCoverage, <<0, 1>>) THEN "OUT_OF_STOCK"
                  ELSE IF ~RowBelowReorderPoint(r) THEN "ADEQUATE"
                  ELSE CoverageTier(r.DaysOfCoverage)
            /\ IsExampleItem(r) => r.Priority \in {"OUT_OF_STOCK", "URGENT", "HIGH"}

C6_Witness ==
    /\ QueryAnswered
    /\ \E i, j \in DOMAIN reorderRows :
          /\ IsExampleItem(reorderRows[i])
          /\ reorderRows[i].Priority = "HIGH"
          /\ reorderRows[j].Priority = "ADEQUATE"
          /\ RatLeq(reorderRows[j].DaysOfCoverage, <<60, 1>>)

\* the ids of the Articulos in the query's answer
OutputIds == {reorderRows[i].idArticulo : i \in DOMAIN reorderRows}

\* C7 as stated: once the query has answered, an item is in the output
\* exactly when it is not discontinued and its Last90DaysSales > 0.
C7_OutputIffActiveWithDemand ==
    QueryAnswered =>
        \A id \in DOMAIN articulos :
            id \in OutputIds <=>
                /\ articulos[id].Discontinuado = 0
                /\ COALESCE(articulos[id].Last90DaysSales, 0) > 0

\* C7 amended: an item is in the output exactly when it is not
\* discontinued, it joins a Categorias row and its Last90DaysSales > 0; no
\* item with zero demand in the last 90 days appears, whatever its stock.
C7_OutputIffActiveCategorisedWithDemand ==
    QueryAnswered =>
        /\ \A id \in DOMAIN articulos :
              id \in OutputIds <=>
                  /\ articulos[id].Discontinuado = 0
                  /\ articulos[id].hasCategoria
                  /\ COALESCE(articulos[id].Last90DaysSales, 0) > 0
        /\ \A i \in DOMAIN reorderRows : reorderRows[i].Last90DaysSales > 0

C7_Witness ==
    /\ QueryAnswered
    /\ \E id, zero \in DOMAIN articulos :
          /\ id \in OutputIds
          /\ zero \notin OutputIds
          /\ articulos[zero].Discontinuado = 0
          /\ articulos[zero].hasCategoria
          /\ COALESCE(articulos[zero].Last90DaysSales, 0) = 0

\* C8: the records get_reorder_analysis returns are the rows of the query,
\* in the query's order: by priority rank OUT_OF_STOCK < URGENT < HIGH <
\* MEDIUM < LOW < ADEQUATE, then by ascending DaysOfCoverage.
C8_RecordsInQueryOrder ==
    QueryAnswered =>
        /\ Len(reorderResult) = Len(reorderRows)
        /\ \A i \in DOMAIN reorderResult :
              reorderResult[i].idArticulo = reorderRows[i].idArticulo
        /\ \A i, j \in DOMAIN reorderResult :
              i < j =>
                 \/ PriorityRank(reorderResult[i].Priority)
                       < PriorityRank(reorderResult[j].Priority)
                 \/ /\ reorderResult[i].Priority = reorderResult[j].Priority
                    /\ RatLeq(reorderResult[i].DaysOfCoverage,
                              reorderResult[j].DaysOfCoverage)

\* the lead time the claim gives a supplier country
LeadTimeOf(country) ==
    IF country = "China" THEN 60 ELSE IF country = "India" THEN 45 ELSE 30

\* C19: in every row the lead time is 60 days for China, 45 for India and 30
\* for any other or a missing country; SafetyStock is DemandStdDev *
\* sqrt(lead time) * 1.65 and ReorderPoint is AvgDailyDemand *
\* EstimatedLeadTimeDays + SafetyStock, all three with the same lead time.
C19_LeadTimeSafetyStockReorderPoint ==
    \A i \in DOMAIN reorderRows :
        LET r == reorderRows[i]
        IN  /\ r.EstimatedLeadTimeDays = LeadTimeOf(r.SupplierCountry)
            /\ r.SafetyStock.coef = RatMul(r.DemandStdDev.coef, <<33, 20>>)
            /\ r.SafetyStock.rad
                  = RatMul(r.DemandStdDev.rad, Int2Rat(r.EstimatedLeadTimeDays))
            /\ r.ReorderPoint.base
                  = RatMul(r.AvgDailyDemand, Int2Rat(r.EstimatedLeadTimeDays))
            /\ r.ReorderPoint.safety = r.SafetyStock

\* the query answered with an item from China and one without a country
C19_Witness ==
    /\ QueryAnswered
    /\ \E i, j \in DOMAIN reorderRows :
          /\ reorderRows[i].SupplierCountry = "China"
          /\ reorderRows[i].EstimatedLeadTimeDays = 60
          /\ reorderRows[i].SafetyStock.rad[1] > 0
          /\ reorderRows[j].SupplierCountry = "NULL"
          /\ reorderRows[j].EstimatedLeadTimeDays = 30

\* ReorderPoint - CurrentStock + SafetyStock of the row r, as a rational part
\* and a surd part
ShortfallRat(r) == RatSub(r.ReorderPoint.base, Int2Rat(r.CurrentStock))

ShortfallSurd(r) ==
    Surd(RatAdd(r.ReorderPoint.safety.coef, r.SafetyStock.coef), r.SafetyStock.rad)

\* k >= max(EOQ, ReorderPoint - CurrentStock + SafetyStock) for the row r
CoversOrder(k, r) ==
    /\ IntGeqSum(k, <<0, 1>>, r.EOQ)
    /\ IntGeqSum(k, ShortfallRat(r), ShortfallSurd(r))

\* C20: when CurrentStock < ReorderPoint, SuggestedOrderQuantity is the
\* smallest integer >= max(EOQ, ReorderPoint - CurrentStock + SafetyStock),
\* which is at least 1, and SuggestedOrderValue is that quantity times
\* UnitPrice; otherwise both are 0.
C20_QuantityIsCeilingOfLargerNeed ==
    \A i \in DOMAIN reorderRows :
        LET r == reorderRows[i]
        IN  IF RowBelowReorderPoint(r)
            THEN /\ CoversOrder(r.SuggestedOrderQuantity, r)
                 /\ ~CoversOrder(r.SuggestedOrderQuantity - 1, r)
                 /\ r.SuggestedOrderQuantity >= 1
                 /\ r.SuggestedOrderValue = r.SuggestedOrderQuantity * r.UnitPrice
            ELSE /\ r.SuggestedOrderQuantity = 0
                 /\ r.SuggestedOrderValue = 0

\* one row orders its EOQ, one its shortfall, one nothing
C20_Witness ==
    /\ QueryAnswered
    /\ \E i \in DOMAIN reorderRows :
          /\ RowBelowReorderPoint(reorderRows[i])
          /\ ~IntGeqSum(reorderRows[i].SuggestedOrderQuantity - 1, <<0, 1>>,
                        reorderRows[i].EOQ)
          /\ reorderRows[i].SuggestedOrderValue > 0
    /\ \E i \in DOMAIN reorderRows :
          /\ RowBelowReorderPoint(reorderRows[i])
          /\ IntGeqSum(reorderRows[i].SuggestedOrderQuantity - 1, <<0, 1>>,
                       reorderRows[i].EOQ)

\* C21: for every item with positive average daily demand (finite days of
\* coverage), ExpectedStockoutDate is defined and is today plus
\* floor(DaysOfCoverage) days; it is undefined only when the item has no
\* demand.
C21_StockoutDateForEveryItemWithDemand ==
    \A i \in DOMAIN reorderRows :
        LET r == reorderRows[i]
        IN  IF r.AvgDailyDemand[1] > 0
            THEN /\ r.ExpectedStockoutDate # NULL
                 /\ r.ExpectedStockoutDate = RatFloor(r.DaysOfCoverage)
            ELSE r.ExpectedStockoutDate = NULL

\* C27: in every output row Priority is ADEQUATE exactly when
\* SuggestedOrderQuantity = 0, and every row of another priority has
\* CurrentStock < ReorderPoint and SuggestedOrderQuantity >= 1.
C27_AdequateIffNothingToOrder ==
    \A i \in DOMAIN reorderRows :
        LET r == reorderRows[i]
        IN  /\ r.Priority = "ADEQUATE" <=> r.SuggestedOrderQuantity = 0
            /\ r.Priority \in {"OUT_OF_STOCK", "URGENT", "HIGH", "MEDIUM", "LOW"}
                  => /\ RowBelowReorderPoint(r)
                     /\ r.SuggestedOrderQuantity >= 1

\* the query answered with an ADEQUATE row, an OUT_OF_STOCK row or a LOW row
\* next to it
C27_Witness ==
    /\ QueryAnswered
    /\ \E i, j \in DOMAIN reorderRows :
          /\ reorderRows[i].Priority = "ADEQUATE"
          /\ reorderRows[i].SuggestedOrderQuantity = 0
          /\ reorderRows[j].Priority \in {"OUT_OF_STOCK", "LOW"}
          /\ reorderRows[j].SuggestedOrderQuantity >= 1

-----------------------------------------------------------------------------
(* FinancialAnalytics: credit risk                                         *)

\* the arguments of every format_currency call of get_credit_risk_analysis
CreditFormatArgs == 3

InitRisk ==
    /\ IdlePurchaseApi
    /\ IdleUtil
    /\ IdleCacheAdmin
    /\ IdleReorder
    /\ IdleAbc
    /\ IdleVelocity
    /\ IdleForecast
    /\ balances \in BalanceValues
    /\ creditRows = <<>>
    /\ creditResult = <<>>
    /\ creditCall = "none"
    /\ riskArg = <<>>
    /\ riskScore = NULL
    /\ riskPct = NaN
    /\ riskLabel = ""

\* the row of the query as clean_dataframe leaves it: a NaN number becomes 0
CleanCreditRow(r) ==
    [r EXCEPT !.OverduePercentage = IF IsNaN(@) THEN <<0, 1>> ELSE @]

\* get_credit_risk_analysis(); the value of a cached call is returned as is
get_credit_risk_analysis(dbUp) ==
    IF creditCall \in {"type_error", "computed", "db_error"}
    THEN /\ creditCall' = creditCall
         /\ UNCHANGED <<creditRows, creditResult, riskArg, riskScore>>
    ELSE IF ~dbUp
    THEN /\ creditCall' = "db_error"
         /\ creditResult' = <<>>
         /\ UNCHANGED <<creditRows, riskArg, riskScore>>
    ELSE /\ creditRows' = CREDIT_RISK_ANALYSIS(balances)
         /\ IF creditRows' = <<>>
            THEN UNCHANGED <<riskArg, riskScore>>
            ELSE /\ riskArg' = CleanCreditRow(creditRows'[1])
                 /\ riskScore' = calculate_risk_score(riskArg')
         /\ IF creditRows' # <<>> /\ format_currency_raises(CreditFormatArgs)
            THEN creditCall' = "type_error" /\ creditResult' = <<>>
            ELSE /\ creditCall' = "computed"
                 /\ creditResult' =
                      [i \in DOMAIN creditRows' |->
                         [Row |-> CleanCreditRow(creditRows'[i]),
                          RiskScore |-> riskScore']]

GetCreditRiskAnalysis ==
    /\ \E dbUp \in BOOLEAN : get_credit_risk_analysis(dbUp)
    /\ UNCHANGED <<balances, riskPct, riskLabel>>
    /\ UNCHANGED exceptRiskVars

CalculateRiskScore ==
    /\ \E row \in RiskArgValues :
          /\ riskArg' = row
          /\ riskScore' = calculate_risk_score(row)
    /\ UNCHANGED <<balances, creditRows, creditResult, creditCall, riskPct,
                   riskLabel>>
    /\ UNCHANGED exceptRiskVars

CategorizeRisk ==
    /\ \E p \in PercentageValues :
          /\ riskPct' = p
          /\ riskLabel' = _categorize_risk(p)
    /\ UNCHANGED <<balances, creditRows, creditResult, creditCall, riskArg,
                   riskScore>>
    /\ UNCHANGED exceptRiskVars

NextRisk == GetCreditRiskAnalysis \/ CalculateRiskScore \/ CategorizeRisk

SpecRisk == InitRisk /\ [][NextRisk]_vars

-----------------------------------------------------------------------------
(* Claims about the credit risk score and label                            *)

\* row.get of the two fields the score reads
ArgPercentage == Get(riskArg, "OverduePercentage", <<0, 1>>)

ArgBalance == Get(riskArg, "CurrentBalance", <<0, 1>>)

\* C2: calculate_risk_score returns min(overduePoints + balancePoints, 100),
\* with overduePoints 40 / 20 / 10 / 0 for a percentage > 50 / > 20 / > 10 /
\* otherwise and balancePoints 30 / 20 / 10 / 0 for a balance > 1,000,000 /
\* > 500,000 / > 100,000 / otherwise, a missing field counting as 0; the score
\* lies in [0,100], and percentage 60 with balance 1,200,000 gives 70.
C2_RiskScoreIsCappedSumOfPoints ==
    riskScore # NULL =>
        /\ riskScore =
             Min((CASE RatLt(<<50, 1>>, ArgPercentage) -> 40
                    [] /\ ~RatLt(<<50, 1>>, ArgPercentage)
                       /\ RatLt(<<20, 1>>, ArgPercentage) -> 20
                    [] /\ ~RatLt(<<20, 1>>, ArgPercentage)
                       /\ RatLt(<<10, 1>>, ArgPercentage) -> 10
                    [] OTHER -> 0)
                 + (CASE RatLt(<<1000000, 1>>, ArgBalance) -> 30
                      [] /\ ~RatLt(<<1000000, 1>>, ArgBalance)
                         /\ RatLt(<<500000, 1>>, ArgBalance) -> 20
                      [] /\ ~RatLt(<<500000, 1>>, ArgBalance)
                         /\ RatLt(<<100000, 1>>, ArgBalance) -> 10
                      [] OTHER -> 0),
                 100)
        /\ riskScore \in 0..100
        /\ (ArgPercentage = <<60, 1>> /\ ArgBalance = <<1200000, 1>>)
              => riskScore = 70

\* the example row was scored, by the handler on a row of the query
C2_Witness ==
    /\ creditCall = "type_error"
    /\ balances = [Amount |-> 1200000, Due |-> 720000]
    /\ ArgPercentage = <<60, 1>>
    /\ ArgBalance = <<1200000, 1>>
    /\ riskScore = 70

\* the label rule of the specification, on the percentage alone
LabelByPercentage(p) ==
    CASE IsNaN(p) -> "LOW RISK"
      [] ~IsNaN(p) /\ RatLt(<<50, 1>>, p) -> "HIGH RISK"
      [] ~IsNaN(p) /\ RatLt(<<20, 1>>, p) /\ RatLeq(p, <<50, 1>>) -> "MEDIUM RISK"
      [] OTHER -> "LOW RISK"

\* C3: the risk label depends on the overdue percentage alone: NaN gives LOW,
\* > 50 gives HIGH, > 20 and <= 50 gives MEDIUM, anything else LOW; and the
\* label the query attaches to a record (Due > 0.5*Amount, Due > 0.2*Amount)
\* agrees with that rule whenever Amount > 0.
C3_LabelByOverduePercentageAlone ==
    /\ riskLabel # "" => riskLabel = LabelByPercentage(riskPct)
    /\ \A i \in DOMAIN creditRows :
          RatLt(<<0, 1>>, creditRows[i].CurrentBalance)
             => creditRows[i].RiskLevel
                   = LabelByPercentage(creditRows[i].OverduePercentage)

\* a MEDIUM record came out of the query and a NaN percentage was labelled,
\* while the score of another row stands at 70
C3_Witness ==
    /\ creditRows # <<>>
    /\ creditRows[1].RiskLevel = "MEDIUM RISK"
    /\ IsNaN(riskPct)
    /\ riskLabel = "LOW RISK"
    /\ riskScore = 70

-----------------------------------------------------------------------------
(* InventoryAnalytics: ABC analysis                                        *)

InitAbc ==
    /\ IdlePurchaseApi
    /\ IdleUtil
    /\ IdleCacheAdmin
    /\ IdleReorder
    /\ IdleRisk
    /\ IdleVelocity
    /\ IdleForecast
    /\ abcItems \in [1..NumAbcItems -> AbcItemValues]
    /\ abcRows = <<>>
    /\ abcResult = <<>>
    /\ abcCall = "none"

\* get_abc_analysis(); the value of a cached call is returned as is
get_abc_analysis(dbUp) ==
    IF abcCall # "none"
    THEN UNCHANGED <<abcRows, abcResult, abcCall>>
    ELSE IF ~dbUp
    THEN /\ abcCall' = "db_error"
         /\ abcResult' = <<>>
         /\ UNCHANGED abcRows
    ELSE /\ abcRows' \in abc_query(abcItems)
         /\ abcResult' = AbcPostProcess(abcRows')
         /\ abcCall' = "computed"

GetAbcAnalysis ==
    /\ \E dbUp \in BOOLEAN : get_abc_analysis(dbUp)
    /\ UNCHANGED abcItems
    /\ UNCHANGED exceptAbcVars

NextAbc == GetAbcAnalysis

SpecAbc == InitAbc /\ [][NextAbc]_vars

\* C4: in the result of get_abc_analysis, for rows in descending order of
\* non-negative SalesValue, CumulativePercentage never decreases along the
\* list, a row is A iff its cumulative percentage is <= 80, B iff it is > 80
\* and <= 95, and C otherwise, and no row of an earlier class follows a row of
\* a later class.
C4_AbcClassesFollowCumulativePercentage ==
    (/\ \A i \in DOMAIN abcResult : abcResult[i].SalesValue >= 0
     /\ \A i, j \in DOMAIN abcResult :
           i < j => abcResult[i].SalesValue >= abcResult[j].SalesValue)
    =>
    /\ \A i, j \in DOMAIN abcResult :
          i < j => RatLeq(abcResult[i].CumulativePercentage,
                          abcResult[j].CumulativePercentage)
    /\ \A i \in DOMAIN abcResult :
          /\ abcResult[i].ABCCategory = "A"
                <=> RatLeq(abcResult[i].CumulativePercentage, <<80, 1>>)
          /\ abcResult[i].ABCCategory = "B"
                <=> /\ RatLt(<<80, 1>>, abcResult[i].CumulativePercentage)
                    /\ RatLeq(abcResult[i].CumulativePercentage, <<95, 1>>)
          /\ abcResult[i].ABCCategory = "C"
                <=> RatLt(<<95, 1>>, abcResult[i].CumulativePercentage)
    /\ \A i, j \in DOMAIN abcResult :
          i < j => ~ \/ abcResult[i].ABCCategory = "C" /\ abcResult[j].ABCCategory # "C"
                     \/ abcResult[i].ABCCategory = "B" /\ abcResult[j].ABCCategory = "A"

\* three rows in descending order sit on the two boundaries and above them
C4_Witness ==
    /\ abcCall = "computed"
    /\ Len(abcResult) = 3
    /\ abcResult[1].SalesValue > abcResult[2].SalesValue
    /\ abcResult[2].SalesValue > abcResult[3].SalesValue
    /\ abcResult[1].CumulativePercentage = <<80, 1>>
    /\ abcResult[1].ABCCategory = "A"
    /\ abcResult[2].CumulativePercentage = <<95, 1>>
    /\ abcResult[2].ABCCategory = "B"
    /\ abcResult[3].ABCCategory = "C"

RECURSIVE TotalSalesOf(_)
\* the sum of SalesValue over the rows idx of the result
TotalSalesOf(idx) ==
    IF idx = {} THEN 0
    ELSE LET i == CHOOSE j \in idx : TRUE
         IN  abcResult[i].SalesValue + TotalSalesOf(idx \ {i})

\* C28: for a non-empty item list whose total sales value is positive, the
\* last item of the sorted list has cumulative percentage 100 and is classed
\* C; in particular a single item with positive sales is classed C, and the
\* first item is classed A only if its own share of the total is <= 80%.
C28_LastItemIsClassC ==
    (abcCall = "computed" /\ abcResult # <<>>
        /\ TotalSalesOf(DOMAIN abcResult) > 0) =>
        /\ abcResult[Len(abcResult)].CumulativePercentage = <<100, 1>>
        /\ abcResult[Len(abcResult)].ABCCategory = "C"
        /\ abcResult[1].ABCCategory = "A"
              => abcResult[1].SalesValue * 100 <= 80 * TotalSalesOf(DOMAIN abcResult)

\* three items, the first of them in class A with a share of 80%
C28_Witness ==
    /\ abcCall = "computed"
    /\ Len(abcResult) = 3
    /\ abcResult[1].ABCCategory = "A"
    /\ abcResult[3].SalesValue > 0
    /\ abcResult[3].ABCCategory = "C"

\* C29: when the total sales value of all items is 0, every item gets
\* SalesPercentage 0 and CumulativePercentage 0 and is classed A; no division
\* by zero occurs and no item is classed B or C.
C29_NoSalesAllClassA ==
    (abcCall = "computed" /\ TotalSalesOf(DOMAIN abcResult) = 0) =>
        /\ Len(abcResult) = Len(abcRows)
        /\ \A i \in DOMAIN abcResult :
              /\ abcResult[i].SalesPercentage = <<0, 1>>
              /\ abcResult[i].CumulativePercentage = <<0, 1>>
              /\ abcResult[i].ABCCategory = "A"

\* three items in stock, none of them sold
C29_Witness ==
    /\ abcCall = "computed"
    /\ Len(abcResult) = 3
    /\ \A i \in DOMAIN abcResult : abcResult[i].SalesValue = 0
    /\ \A i \in DOMAIN abcResult : abcResult[i].ABCCategory = "A"

-----------------------------------------------------------------------------
(* InventoryAnalytics: stock velocity                                      *)

InitVelocity ==
    /\ IdlePurchaseApi
    /\ IdleUtil
    /\ IdleCacheAdmin
    /\ IdleReorder
    /\ IdleRisk
    /\ IdleAbc
    /\ IdleForecast
    /\ velocityItems \in [1..NumVelocityItems -> VelocityItemValues]
    /\ velocityRows = <<>>
    /\ velocityResult = <<>>
    /\ velocityCall = "none"

\* get_stock_velocity_summary()
get_stock_velocity_summary(dbUp) ==
    IF ~dbUp
    THEN /\ velocityCall' = "db_error"
         /\ velocityRows' = <<>>
         /\ velocityResult' = <<>>
    ELSE /\ velocityRows' \in STOCK_VELOCITY_SUMMARY(velocityItems)
         /\ IF velocityRows' # <<>> /\ format_currency_raises(VelocityFormatArgs)
            THEN velocityCall' = "type_error" /\ velocityResult' = <<>>
            ELSE velocityCall' = "computed" /\ velocityResult' = velocityRows'

GetStockVelocitySummary ==
    /\ \E dbUp \in BOOLEAN : get_stock_velocity_summary(dbUp)
    /\ UNCHANGED velocityItems
    /\ UNCHANGED exceptVelocityVars

NextVelocity == GetStockVelocitySummary

SpecVelocity == InitVelocity /\ [][NextVelocity]_vars

\* C5: the stock health status of every row is decided by the first rule
\* that matches, in this order: stock = 0 gives OUT_OF_STOCK; else average
\* monthly sales = 0 (stock > 0) gives DEAD_STOCK; else stock / average < 1
\* gives LOW_STOCK; else stock / average > 6 gives OVERSTOCK; else HEALTHY.
\* Every row has exactly one status, and stock 0 is OUT_OF_STOCK whatever
\* the sales.
C5_StockHealthFirstMatch ==
    \A i \in DOMAIN velocityRows :
        LET stock  == velocityRows[i].CurrentStock
            avg    == velocityRows[i].AvgMonthlySales
            status == velocityRows[i].StockHealthStatus
        IN  /\ status \in {"OUT_OF_STOCK", "DEAD_STOCK", "LOW_STOCK",
                           "OVERSTOCK", "HEALTHY"}
            /\ stock = 0 => status = "OUT_OF_STOCK"
            /\ (stock # 0 /\ avg = <<0, 1>>) => status = "DEAD_STOCK"
            /\ (stock # 0 /\ avg # <<0, 1>>
                  /\ stock * avg[2] < avg[1]) => status = "LOW_STOCK"
            /\ (stock # 0 /\ avg # <<0, 1>>
                  /\ ~(stock * avg[2] < avg[1])
                  /\ stock * avg[2] > 6 * avg[1]) => status = "OVERSTOCK"
            /\ (stock # 0 /\ avg # <<0, 1>>
                  /\ ~(stock * avg[2] < avg[1])
                  /\ ~(stock * avg[2] > 6 * avg[1])) => status = "HEALTHY"

\* the query answered with an out-of-stock item that has sales and an
\* overstocked one
C5_Witness ==
    /\ velocityCall = "type_error"
    /\ \E i, j \in DOMAIN velocityRows :
          /\ velocityRows[i].CurrentStock = 0
          /\ velocityRows[i].AvgMonthlySales = <<2, 1>>
          /\ velocityRows[i].StockHealthStatus = "OUT_OF_STOCK"
          /\ velocityRows[j].StockHealthStatus = "OVERSTOCK"

-----------------------------------------------------------------------------
(* FinancialAnalytics: cash flow forecast                                  *)

InitForecast ==
    /\ IdlePurchaseApi
    /\ IdleUtil
    /\ IdleCacheAdmin
    /\ IdleReorder
    /\ IdleRisk
    /\ IdleAbc
    /\ IdleVelocity
    /\ monthlyPayments \in MonthlyPaymentsValues
    /\ dfHistorical = <<>>
    /\ forecastMonths = 0
    /\ componentForecasts = <<>>
    /\ loopLocals = <<>>
    /\ forecastResult = <<>>
    /\ forecastCall = "none"

\* the call once the query has returned the non-empty df, sorted
ForecastFromHistory(df, future) ==
    /\ componentForecasts' = ComponentForecasts(df, future)
    /\ loopLocals' = ForecastPostProcess(df, future, componentForecasts').locals
    /\ forecastResult' = ForecastPostProcess(df, future, componentForecasts').result
    /\ forecastCall' = ForecastPostProcess(df, future, componentForecasts').call

\* get_cash_flow_forecast(forecast_months)
get_cash_flow_forecast(forecast_months, dbUp) ==
    /\ forecastMonths' = forecast_months
    /\ IF ~dbUp
       THEN /\ forecastCall' = "db_error"
            /\ dfHistorical' = <<>>
            /\ forecastResult' = <<>>
            /\ componentForecasts' = <<>>
            /\ loopLocals' = <<>>
       ELSE /\ dfHistorical' =
                 sort_values(CleanPayments(CASH_FLOW_FORECAST(monthlyPayments)))
            /\ IF dfHistorical' = <<>>
               THEN /\ forecastCall' = "empty"
                    /\ forecastResult' = <<>>
                    /\ componentForecasts' = <<>>
                    /\ loopLocals' = <<>>
               ELSE ForecastFromHistory(dfHistorical',
                                        FutureDates(dfHistorical', forecast_months))

GetCashFlowForecast ==
    /\ \E forecast_months \in HorizonValues, dbUp \in BOOLEAN :
          get_cash_flow_forecast(forecast_months, dbUp)
    /\ UNCHANGED monthlyPayments
    /\ UNCHANGED exceptForecastVars

NextForecast == GetCashFlowForecast

SpecForecast == InitForecast /\ [][NextForecast]_vars

\* the values of the four lists of the last call
ComponentValues ==
    IF componentForecasts = <<>> THEN {}
    ELSE UNION {{componentForecasts[a][i] : i \in DOMAIN componentForecasts[a]} :
                   a \in {"trend", "seasonal", "exponential", "moving_average"}}

\* C9: whatever the history (one month or more, declining, with a negative
\* fitted slope) and the horizon, every value of the linear trend, seasonal,
\* exponential smoothing and moving average lists is >= 0, and so is the
\* ensemble value computed from them.
C9_ForecastValuesNonNegative ==
    /\ \A v \in ComponentValues : RatLeq(<<0, 1>>, v)
    /\ \A i \in DOMAIN loopLocals :
          RatLeq(<<0, 1>>, loopLocals[i].ensemble_forecast)

\* a declining history whose fitted line and whose smoothed trend both fall
\* below zero within the horizon
C9_Witness ==
    /\ componentForecasts # <<>>
    /\ Len(componentForecasts.trend) = 3
    /\ Cardinality(monthlyPayments) = 3
    /\ polyfit(ActualPayments(dfHistorical)).slope[1] < 0
    /\ componentForecasts.trend[3] = <<0, 1>>
    /\ componentForecasts.exponential[3] = <<0, 1>>
    /\ RatLt(<<0, 1>>, componentForecasts.moving_average[3])
    /\ loopLocals # <<>>

\* a call on a non-empty history got the rows of the query
ForecastAnswered == forecastCall \in {"type_error", "computed"}

\* the forecast points of the returned value
ForecastPoints == SelectSeq(forecastResult, LAMBDA p : ~p.IsHistorical)

ContextLen == Min(Len(dfHistorical), 6)

\* C11: for a non-empty history of N months and a horizon H >= 1, the value
\* returned holds the trailing min(N, 6) actual months as records marked
\* historical, with the actual amount and no forecast value or confidence
\* interval, followed by exactly H records not marked historical, without an
\* actual amount, with an ensemble value, a confidence interval and the four
\* component values.
C11_HistoryThenForecastRecords ==
    (ForecastAnswered /\ forecastMonths >= 1) =>
        /\ Len(forecastResult) = ContextLen + forecastMonths
        /\ \A i \in 1..ContextLen :
              LET p   == forecastResult[i]
                  row == dfHistorical[Len(dfHistorical) - ContextLen + i]
              IN  /\ p.IsHistorical
                  /\ p.Year = row.Year /\ p.Month = row.Month
                  /\ p.ActualPayments = Int2Rat(row.ActualPayments)
                  /\ p.ForecastedPayments = NULL
                  /\ p.ConfidenceInterval = NULL
        /\ \A i \in 1..forecastMonths :
              LET p == forecastResult[ContextLen + i]
              IN  /\ ~p.IsHistorical
                  /\ p.ActualPayments = NULL
                  /\ ~IsNaN(p.ForecastedPayments)
                  /\ DOMAIN p.ConfidenceInterval = {"lower", "upper"}
                  /\ DOMAIN p.ComponentForecasts
                        = {"trend", "seasonal", "exponential", "moving_average"}

\* the calendar month of the k-th month after the last historical month
FutureMonth(k) == ((dfHistorical[Len(dfHistorical)].Month - 1 + k) % 12) + 1

\* the rows of the history that fall in the calendar month m
RowsOfMonth(m) == {i \in DOMAIN dfHistorical : dfHistorical[i].Month = m}

RECURSIVE TotalOf(_)
\* the sum of ActualPayments over the rows idx of the history
TotalOf(idx) ==
    IF idx = {} THEN 0
    ELSE LET i == CHOOSE j \in idx : TRUE
         IN  dfHistorical[i].ActualPayments + TotalOf(idx \ {i})

\* max(0, x)
NonNegative(x) == IF x[1] < 0 THEN <<0, 1>> ELSE x

\* C22: for a history of fewer than 12 months the seasonal forecast equals
\* the linear-trend forecast for every future month; for 12 months or more
\* each seasonal value is max(0, linear-trend value * factor), the factor
\* being the average of that calendar month over the overall average, or 1
\* when the calendar month does not occur in the history.
C22_SeasonalIsTrendTimesMonthFactor ==
    componentForecasts # <<>> =>
        /\ Len(componentForecasts.seasonal) = forecastMonths
        /\ \A k \in 1..forecastMonths :
              LET trend == componentForecasts.trend[k]
                  rows  == RowsOfMonth(FutureMonth(k))
              IN  componentForecasts.seasonal[k] =
                     IF Len(dfHistorical) < 12 THEN trend
                     ELSE IF rows = {} THEN NonNegative(trend)
                     ELSE NonNegative(
                              RatMul(trend,
                                     Rat(TotalOf(rows) * Len(dfHistorical),
                                         Cardinality(rows) * TotalOf(DOMAIN dfHistorical))))

\* a history of 12 months with a gap: of the three future months one is not
\* in the history and one has a factor other than 1
C22_Witness ==
    /\ componentForecasts # <<>>
    /\ Len(dfHistorical) = 12
    /\ forecastMonths = 3
    /\ \E k \in 1..3 : RowsOfMonth(FutureMonth(k)) = {}
    /\ \E k \in 1..3 :
          /\ RowsOfMonth(FutureMonth(k)) # {}
          /\ componentForecasts.seasonal[k] # componentForecasts.trend[k]
          /\ RatLt(<<0, 1>>, componentForecasts.seasonal[k])

\* the mean of the whole history
HistoryMean == Rat(TotalOf(DOMAIN dfHistorical), Len(dfHistorical))

\* C23: a short history is never an error: for every history of N >= 1
\* months and every horizon H each of the four algorithms returns exactly H
\* values, the linear trend returning the mean of the history H times when
\* N < 2 and the moving average returning the mean of the history H times
\* when N < 3.
C23_ShortHistoryFallsBackToMean ==
    (Len(dfHistorical) >= 1 /\ forecastCall # "db_error") =>
        /\ componentForecasts # <<>>
        /\ \A a \in {"trend", "seasonal", "exponential", "moving_average"} :
              /\ DOMAIN componentForecasts[a] = 1..forecastMonths
              /\ \A k \in 1..forecastMonths : ~IsNaN(componentForecasts[a][k])
        /\ Len(dfHistorical) < 2 =>
              \A k \in 1..forecastMonths : componentForecasts.trend[k] = HistoryMean
        /\ Len(dfHistorical) < 3 =>
              \A k \in 1..forecastMonths :
                 componentForecasts.moving_average[k] = HistoryMean

\* a growing history of two months: the trend is the fitted line, the moving
\* average the mean
C23_Witness ==
    /\ componentForecasts # <<>>
    /\ Len(dfHistorical) = 2
    /\ forecastMonths = 3
    /\ dfHistorical[1].ActualPayments < dfHistorical[2].ActualPayments
    /\ componentForecasts.moving_average[3] = HistoryMean
    /\ componentForecasts.trend[3] # HistoryMean

\* actual[i] of the history, the months counted from 1
Actual(i) == Int2Rat(dfHistorical[i].ActualPayments)

\* whether s, a series as long as the history, is the smoothed series of
\* the claim: s[1] = actual[1], s[i] = 0.3 actual[i] + 0.7 s[i-1]
IsSmoothedSeries(s) ==
    /\ DOMAIN s = DOMAIN dfHistorical
    /\ s[1] = Actual(1)
    /\ \A i \in 2..Len(s) :
          s[i] = RatAdd(RatMul(<<3, 10>>, Actual(i)), RatMul(<<7, 10>>, s[i - 1]))

\* t of the claim for the smoothed series s
SmoothedTrend(s) ==
    IF Len(s) >= 3 THEN RatMul(<<1, 2>>, RatSub(s[Len(s)], s[Len(s) - 2]))
    ELSE <<0, 1>>

\* the forecasts of the claim for the smoothed series s
IsExponentialForecast(s) ==
    /\ Len(componentForecasts.exponential) = forecastMonths
    /\ \A k \in 1..forecastMonths :
          componentForecasts.exponential[k] =
             NonNegative(RatAdd(s[Len(s)], RatMul(Int2Rat(k), SmoothedTrend(s))))

\* the series the loop of _exponential_smoothing_forecast builds
SmoothedOfHistory ==
    [i \in DOMAIN dfHistorical |-> Smoothed(ActualPayments(dfHistorical), i)]

\* C24: the exponential-smoothing forecast for the k-th future month is
\* max(0, s[N-1] + k * t), where s[0] = actual[0], s[i] = 0.3 * actual[i] +
\* 0.7 * s[i-1], and t = (s[N-1] - s[N-3]) / 2 when N >= 3 and 0 when N < 3.
C24_ExponentialSmoothingFormula ==
    componentForecasts # <<>> =>
        /\ IsSmoothedSeries(SmoothedOfHistory)
        /\ IsExponentialForecast(SmoothedOfHistory)

\* a history of three months with a falling smoothed trend that reaches the
\* clamp within the horizon, and one with a rising trend
C24_Witness ==
    /\ componentForecasts # <<>>
    /\ Len(dfHistorical) = 3
    /\ forecastMonths = 3
    /\ SmoothedTrend(SmoothedOfHistory)[1] < 0
    /\ RatLt(<<0, 1>>, componentForecasts.exponential[1])
    /\ componentForecasts.exponential[3] = <<0, 1>>

\* the last min(n, N) months of the history
LastMonths(n) ==
    {i \in DOMAIN dfHistorical : i > Len(dfHistorical) - n}

\* the transitions among the last six months whose prior value is not 0
CountedTransitions ==
    {i \in LastMonths(6) : i - 1 \in LastMonths(6) /\ dfHistorical[i - 1].ActualPayments # 0}

RECURSIVE TotalGrowth(_)
\* the sum of the growth rates of the transitions idx
TotalGrowth(idx) ==
    IF idx = {} THEN <<0, 1>>
    ELSE LET i == CHOOSE j \in idx : TRUE
         IN  RatAdd(Rat(dfHistorical[i].ActualPayments - dfHistorical[i - 1].ActualPayments,
                        dfHistorical[i - 1].ActualPayments),
                    TotalGrowth(idx \ {i}))

\* g of the claim
GrowthOfClaim ==
    IF CountedTransitions = {} THEN <<0, 1>>
    ELSE RatDiv(TotalGrowth(CountedTransitions), Int2Rat(Cardinality(CountedTransitions)))

RECURSIVE RatPower(_, _)
\* x to the power k
RatPower(x, k) == IF k = 0 THEN <<1, 1>> ELSE RatMul(x, RatPower(x, k - 1))

\* C25: for N >= 3 the moving-average forecast for the k-th future month is
\* max(0, m * (1 + g)^k), where m is the mean of the last min(6, N)
\* observations and g the average of the period-over-period growth rates over
\* the last 6 observations, skipping exactly the transitions whose prior value
\* is 0 (g = 0 when no transition remains).
C25_MovingAverageCompoundsGrowth ==
    (componentForecasts # <<>> /\ Len(dfHistorical) >= 3) =>
        /\ Len(componentForecasts.moving_average) = forecastMonths
        /\ \A k \in 1..forecastMonths :
              componentForecasts.moving_average[k] =
                 NonNegative(
                     RatMul(Rat(TotalOf(LastMonths(6)), Cardinality(LastMonths(6))),
                            RatPower(RatAdd(<<1, 1>>, GrowthOfClaim), k)))

\* a history of three months that first grows and then shrinks, with a
\* growth rate other than 0, forecast three months ahead
C25_Witness ==
    /\ componentForecasts # <<>>
    /\ Len(dfHistorical) = 3
    /\ forecastMonths = 3
    /\ dfHistorical[1].ActualPayments < dfHistorical[2].ActualPayments
    /\ dfHistorical[3].ActualPayments < dfHistorical[2].ActualPayments
    /\ GrowthOfClaim # <<0, 1>>
    /\ componentForecasts.moving_average[1] # componentForecasts.moving_average[3]

\* the history is a constant series
IsConstantHistory ==
    /\ Len(dfHistorical) >= 1
    /\ \A i \in DOMAIN dfHistorical :
          dfHistorical[i].ActualPayments = dfHistorical[1].ActualPayments

\* C26: for a constant monthly series of value c >= 0 and any length N >= 1
\* the linear-trend forecast is c for every future month, and so are the
\* seasonal, exponential-smoothing and moving-average forecasts and the
\* ensemble; [100, 100, 100, 100] forecasts 100 for every month.
C26_ConstantSeriesForecastsItself ==
    (componentForecasts # <<>> /\ IsConstantHistory) =>
        /\ \A a \in {"trend", "seasonal", "exponential", "moving_average"} :
              /\ Len(componentForecasts[a]) = forecastMonths
              /\ \A k \in 1..forecastMonths : componentForecasts[a][k] = Actual(1)
        /\ forecastMonths >= 1 => loopLocals # <<>>
        /\ \A i \in DOMAIN loopLocals : loopLocals[i].ensemble_forecast = Actual(1)

\* the series [100, 100, 100, 100] forecast three months ahead
C26_Witness ==
    /\ componentForecasts # <<>>
    /\ Len(dfHistorical) = 4
    /\ IsConstantHistory
    /\ dfHistorical[1].ActualPayments = 100
    /\ forecastMonths = 3
    /\ componentForecasts.trend[3] = <<100, 1>>
    /\ loopLocals # <<>>
    /\ loopLocals[1].ensemble_forecast = <<100, 1>>

\* the months elapsed since year 0 at the record p
MonthsOf(p) == p.Year * 12 + p.Month - 1

\* C30: the H forecast records of get_cash_flow_forecast are for the H
\* consecutive calendar months that follow the latest historical month, in
\* ascending order: each Month is in 1..12, the month after December is
\* January of the next year, and every record of the whole result has a
\* strictly later (Year, Month) than the record before it.
C30_ForecastMonthsFollowHistory ==
    (ForecastAnswered /\ forecastMonths >= 1) =>
        /\ Len(ForecastPoints) = forecastMonths
        /\ \A k \in DOMAIN ForecastPoints :
              /\ ForecastPoints[k].Month \in 1..12
              /\ MonthsOf(ForecastPoints[k])
                    = MonthsOf(dfHistorical[Len(dfHistorical)]) + k
        /\ \A i \in DOMAIN forecastResult :
              i + 1 \in DOMAIN forecastResult
                 => MonthsOf(forecastResult[i]) < MonthsOf(forecastResult[i + 1])

-----------------------------------------------------------------------------
(* The callers of get_reorder_analysis: repeated calls, the cache timeout   *)
(* and the /api/reorder-analysis endpoint                                   *)

\* demand_days when the caller passes none
DefaultDemandDays == 90

\* PurchaseAnalytics.get_reorder_summary, given what its own call of
\* get_reorder_analysis() returned; <<>> stands for the empty dict.  The
\* groupings by supplier and by priority are left out of the record.
get_reorder_summary(reorder_data) ==
    IF reorder_data = <<>> THEN <<>>
    ELSE IF format_currency_raises(ReorderFormatArgs) THEN <<>>
    ELSE [total_items_to_reorder |->
              Cardinality({i \in DOMAIN reorder_data :
                              reorder_data[i].SuggestedOrderQuantity > 0}),
          urgent_items |->
              Cardinality({i \in DOMAIN reorder_data :
                              reorder_data[i].Priority \in {"OUT_OF_STOCK", "URGENT"}}),
          high_priority_items |->
              Cardinality({i \in DOMAIN reorder_data :
                              reorder_data[i].Priority = "HIGH"}),
          total_order_value |->
              SumInt([i \in DOMAIN reorder_data |->
                         reorder_data[i].SuggestedOrderValue])]

\* the entry of reorderLog for a call that ended as o
LogEntry(demand_days, o) ==
    [demand_days |-> demand_days, call |-> o.call, rows |-> o.rows,
     result |-> o.result]

\* tables on which the query returns no row, one row, two rows in a fixed
\* order and two rows with equal sort keys
ReorderTables ==
    LET item(stock, country, sales) ==
            [cantidad |-> stock, preciounitario |-> 100, Discontinuado |-> 0,
             hasCategoria |-> TRUE, Country |-> country, Last30DaysSales |-> 1,
             Last90DaysSales |-> sales]
        silent ==
            [cantidad |-> 50, preciounitario |-> 0, Discontinuado |-> 0,
             hasCategoria |-> TRUE, Country |-> "Brazil", Last30DaysSales |-> NULL,
             Last90DaysSales |-> NULL]
    IN  {<<silent>>,
         <<item(50, "China", 180)>>,
         <<item(50, "China", 180), item(0, "India", 90)>>,
         <<item(50, "China", 180), item(50, "China", 180)>>}

\* calls recorded per behaviour
MaxCalls == 3

InitPurchaseApi ==
    /\ IdleUtil
    /\ IdleCacheAdmin
    /\ IdleRisk
    /\ IdleAbc
    /\ IdleVelocity
    /\ IdleForecast
    /\ articulos \in ReorderTables
    /\ reorderRows = <<>>
    /\ reorderResult = <<>>
    /\ reorderCall = "none"
    /\ cache = [d \in DemandDaysValues |-> <<>>]
    /\ reorderLog = <<>>
    /\ response = <<>>

\* a caller runs get_reorder_analysis(d) to its end
CallReorderAnalysis ==
    /\ Len(reorderLog) < MaxCalls
    /\ \E d \in DemandDaysValues, dbUp \in BOOLEAN :
          /\ get_reorder_analysis(d, dbUp)
          /\ reorderLog' =
                Append(reorderLog,
                       [demand_days |-> d, call |-> reorderCall',
                        rows |-> reorderRows', result |-> reorderResult'])
    /\ UNCHANGED response
    /\ UNCHANGED exceptPurchaseApiVars


\* routes/purchase.py reorder_analysis(): get_reorder_analysis() and then
\* get_reorder_summary(), which calls get_reorder_analysis() again.  Both
\* catch every exception themselves, so the except branch of the route
\* (status 'error', 500) has nothing to catch.
reorder_analysis(dbUp1, dbUp2) ==
    \E first \in ReorderCall(articulos, cache, DefaultDemandDays, dbUp1) :
        \E second \in ReorderCall(articulos, first.cache, DefaultDemandDays, dbUp2) :
            /\ response' = [status        |-> "success",
                            code          |-> 200,
                            data          |-> first.result,
                            summary       |-> get_reorder_summary(second.result),
                            total_records |-> Len(first.result)]
            /\ reorderRows' = second.rows
            /\ reorderResult' = second.result
            /\ reorderCall' = second.call
            /\ cache' = second.cache
            /\ reorderLog' = reorderLog \o <<LogEntry(DefaultDemandDays, first),
                                             LogEntry(DefaultDemandDays, second)>>
            /\ UNCHANGED articulos

ReorderAnalysisRoute ==
    /\ Len(reorderLog) + 2 <= MaxCalls
    /\ \E dbUp1, dbUp2 \in BOOLEAN : reorder_analysis(dbUp1, dbUp2)
    /\ UNCHANGED exceptPurchaseApiVars

\* the timeout of cache.set(cache_key, ...) passes for the key of d: the
\* entry is dropped and the TTL window of the key ends
CacheTimeout ==
    /\ \E d \in DemandDaysValues :
          /\ cache[d] # <<>> \/ \E i \in DOMAIN reorderLog : reorderLog[i].demand_days = d
          /\ cache' = [cache EXCEPT ![d] = <<>>]
          /\ reorderLog' = SelectSeq(reorderLog, LAMBDA e : e.demand_days # d)
    /\ UNCHANGED <<articulos, reorderRows, reorderResult, reorderCall, response>>
    /\ UNCHANGED exceptPurchaseApiVars

NextPurchaseApi == CallReorderAnalysis \/ ReorderAnalysisRoute \/ CacheTimeout

SpecPurchaseApi == InitPurchaseApi /\ [][NextPurchaseApi]_vars

\* the log entries a step has added
NewLogEntries == {reorderLog'[i] : i \in (DOMAIN reorderLog') \ (DOMAIN reorderLog)}

\* C12: when the query layer raises during get_reorder_analysis while the
\* endpoint /api/reorder-analysis is served, nothing is computed on the absent
\* data, the failure reaches the caller, and the endpoint answers with status
\* 'error', not with a success response.
C12_QueryFailureReportedAsError ==
    [][(Cardinality(NewLogEntries) > 0 /\ Len(reorderLog') = Len(reorderLog) + 2
        /\ \E e \in NewLogEntries : e.call = "db_error")
          => (response'.status = "error" /\ response'.code # 200)]_vars

C15_OneComputationPerWindow ==
    \A i, j \in DOMAIN reorderLog :
        (i < j /\ reorderLog[i].demand_days = reorderLog[j].demand_days)
            => reorderLog[j].call = "cached"

\* the units the Articulo of the row r sold in the trailing d days
SalesOfLastDays(r, d) ==
    IF d = 30 THEN COALESCE(articulos[r.idArticulo].Last30DaysSales, 0)
    ELSE COALESCE(articulos[r.idArticulo].Last90DaysSales, 0)

\* C16: get_reorder_analysis(demand_days = d) computes each item's average
\* daily demand over the trailing d days, as the sales of the last d days
\* divided by d.
C16_DemandWindowFollowsParameter ==
    \A i \in DOMAIN reorderLog :
        \A k \in DOMAIN reorderLog[i].rows :
            reorderLog[i].rows[k].AvgDailyDemand
               = Rat(SalesOfLastDays(reorderLog[i].rows[k], reorderLog[i].demand_days),
                     reorderLog[i].demand_days)

-----------------------------------------------------------------------------
(* analytics/utils.py: the guarded ratios and clean_dataframe; the          *)
(* executive summary; the ratios of the ReorderCalculations CTE             *)

\* mutant: only a missing previous value is guarded
calculate_growth_rate_NullCheckOnly(current, previous) ==
    IF IsNaN(previous) THEN <<0, 1>>
    ELSE IF IsNaN(current) \/ previous[1] = 0 THEN NaN
    ELSE RatMul(RatDiv(RatSub(current, previous), previous), <<100, 1>>)

\* calculate_growth_rate(current, previous); a NaN current value propagates
calculate_growth_rate(current, previous) ==
    IF IsNaN(previous) \/ previous[1] = 0 THEN <<0, 1>>
    ELSE IF IsNaN(current) THEN NaN
    ELSE RatMul(RatDiv(RatSub(current, previous), previous), <<100, 1>>)

\* safe_divide(numerator, denominator)
safe_divide(numerator, denominator) ==
    IF denominator[1] = 0 \/ IsNaN(denominator) THEN <<0, 1>>
    ELSE IF IsNaN(numerator) THEN NaN
    ELSE RatDiv(numerator, denominator)

\* arguments of the two ratio functions: None / NaN, zero and other numbers
RatioValues == {NaN, <<0, 1>>, <<1, 1>>, <<-2, 1>>, <<3, 2>>, <<100, 1>>}

\* rows of the Balances table
MaxBalances == 2

BalanceRowValues == [Amount : {100, 200}, Due : {0, 150}]

BalanceTables == UNION {[1..n -> BalanceRowValues] : n \in 0..MaxBalances}

\* FinancialQueries.EXECUTIVE_SUMMARY: one row of aggregates over the rows
\* with Amount > 100, one customer per row; SUM and AVG of no row are NULL
EXECUTIVE_SUMMARY(tbl) ==
    LET rows == SelectSeq(tbl, LAMBDA b : b.Amount > 100)
    IN  [UniqueCustomers  |-> Len(rows),
         TotalOutstanding |-> IF rows = <<>> THEN NaN
                              ELSE Int2Rat(SumInt([i \in DOMAIN rows |-> rows[i].Amount])),
         TotalOverdue     |-> IF rows = <<>> THEN NaN
                              ELSE Int2Rat(SumInt([i \in DOMAIN rows |-> rows[i].Due])),
         AvgBalance       |-> IF rows = <<>> THEN NaN
                              ELSE Rat(SumInt([i \in DOMAIN rows |-> rows[i].Amount]),
                                       Len(rows))]

\* (TotalOverdue / TotalOutstanding) * 100 if TotalOutstanding > 0 else 0
overdue_percentage(row) ==
    IF RatLt(<<0, 1>>, row.TotalOutstanding)
    THEN RatMul(RatDiv(row.TotalOverdue, row.TotalOutstanding), <<100, 1>>)
    ELSE <<0, 1>>

\* number of positional arguments of format_currency(x, 'ARS', 'SPISA')
SummaryFormatArgs == 3

\* The body of get_executive_summary on the row of the query.  nullAsNone
\* is whether the frame holds the NULL aggregates as None (float(None)
\* raises TypeError) or as NaN.  The value returned is the empty dict, <<>>,
\* whenever an exception is caught.
ExecutiveSummaryBody(row, nullAsNone) ==
    IF IsNaN(row.TotalOutstanding) /\ nullAsNone
    THEN [call |-> "type_error", locals |-> <<>>, result |-> <<>>]
    ELSE IF format_currency_raises(SummaryFormatArgs)
    THEN [call   |-> "type_error",
          locals |-> <<[TotalOutstanding   |-> row.TotalOutstanding,
                        overdue_percentage |-> overdue_percentage(row)]>>,
          result |-> <<>>]
    ELSE [call   |-> "computed",
          locals |-> <<[TotalOutstanding   |-> row.TotalOutstanding,
                        overdue_percentage |-> overdue_percentage(row)]>>,
          result |-> [unique_customers   |-> row.UniqueCustomers,
                      total_outstanding  |-> row.TotalOutstanding,
                      total_overdue      |-> row.TotalOverdue,
                      avg_balance        |-> row.AvgBalance,
                      overdue_percentage |-> overdue_percentage(row)]]

\* the keys under which the decorated functions and cache.set store values
CacheKeys ==
    {"financial_exec_summary", "financial_credit_risk", "inventory_abc",
     "inventory_alerts", "purchase_supplier_performance", "cache_test_key"}

\* get_executive_summary() under @cache.cached(key_prefix=
\* 'financial_exec_summary'): a stored value is returned as it is; otherwise
\* the body runs and whatever it returns is stored
get_executive_summary(tbl, dbUp, nullAsNone) ==
    IF cacheStore["financial_exec_summary"] # <<>>
    THEN /\ utilValue' = [call |-> "cached", locals |-> <<>>,
                          result |-> cacheStore["financial_exec_summary"][1]]
         /\ UNCHANGED cacheStore
    ELSE /\ utilValue' = IF dbUp
                         THEN ExecutiveSummaryBody(EXECUTIVE_SUMMARY(tbl), nullAsNone)
                         ELSE [call |-> "db_error", locals |-> <<>>, result |-> <<>>]
         /\ cacheStore' = [cacheStore EXCEPT
                              !["financial_exec_summary"] = <<utilValue'.result>>]

InitUtil ==
    /\ IdleReorder
    /\ IdleRisk
    /\ IdleAbc
    /\ IdleVelocity
    /\ IdleForecast
    /\ IdlePurchaseApi
    /\ utilCall = "none"
    /\ utilArgs = <<>>
    /\ utilValue = <<>>
    /\ cacheStore = [k \in CacheKeys |-> <<>>]
    /\ adminResponse = <<>>

CalculateGrowthRate ==
    /\ \E current, previous \in RatioValues :
          /\ utilArgs' = [current |-> current, previous |-> previous]
          /\ utilValue' = calculate_growth_rate(current, previous)
    /\ utilCall' = "calculate_growth_rate"
    /\ UNCHANGED <<cacheAdminVars, analyticsVars>>

SafeDivide ==
    /\ \E numerator, denominator \in RatioValues :
          /\ utilArgs' = [numerator |-> numerator, denominator |-> denominator]
          /\ utilValue' = safe_divide(numerator, denominator)
    /\ utilCall' = "safe_divide"
    /\ UNCHANGED <<cacheAdminVars, analyticsVars>>

GetExecutiveSummary ==
    /\ \E tbl \in BalanceTables, dbUp, nullAsNone \in BOOLEAN :
          /\ utilArgs' = tbl
          /\ get_executive_summary(tbl, dbUp, nullAsNone)
    /\ utilCall' = "get_executive_summary"
    /\ UNCHANGED <<adminResponse, analyticsVars>>

\* the timeout of a stored value passes
CacheStoreTimeout ==
    /\ \E k \in DOMAIN cacheStore :
          /\ cacheStore[k] # <<>>
          /\ cacheStore' = [cacheStore EXCEPT ![k] = <<>>]
    /\ UNCHANGED <<adminResponse, utilVars, analyticsVars>>

\* the ReorderCalculations CTE on the ProductDemand row of one Articulo
EvalReorderCalculations ==
    /\ \E a \in ArticuloValues :
          /\ InProductDemand(a)
          /\ utilArgs' = a
          /\ utilValue' = ReorderCalculations(ProductDemand(1, a))
    /\ utilCall' = "ReorderCalculations"
    /\ UNCHANGED <<cacheAdminVars, analyticsVars>>


(* clean_dataframe on any frame *)

\* The cells of a frame: a number, a string, or None / NaN.
Num(n) == [kind |-> "num", num |-> n, str |-> ""]

Str(s) == [kind |-> "str", num |-> 0, str |-> s]

None == [kind |-> "null", num |-> 0, str |-> ""]

\* The dtype pandas gives the column c of the frame df, a sequence of rows:
\* a number dtype when the column holds numbers, with or without missing
\* values among them; object when it holds a string, or nothing but None.
IsNumberColumn(df, c) ==
    /\ \E i \in DOMAIN df : df[i][c].kind = "num"
    /\ \A i \in DOMAIN df : df[i][c].kind \in {"num", "null"}

\* df.select_dtypes(include=...).columns, for np.number and for 'object'
select_dtypes(df, columns, include) ==
    IF include = "number" THEN {c \in columns : IsNumberColumn(df, c)}
    ELSE {c \in columns : ~IsNumberColumn(df, c)}

\* df[columns] = df[columns].fillna(value)
fillna(df, columns, value) ==
    [i \in DOMAIN df |->
        [c \in DOMAIN df[i] |->
            IF c \in columns /\ df[i][c].kind = "null" THEN value ELSE df[i][c]]]

\* clean_dataframe(df) for a frame with the given columns
CleanFrame(df, columns) ==
    LET numeric_columns == select_dtypes(df, columns, "number")
        filled          == fillna(df, numeric_columns, Num(0))
        string_columns  == select_dtypes(filled, columns, "object")
    IN  fillna(filled, string_columns, Str(""))

\* rows of a frame
MaxRows == 2

\* a frame of a query that selects a numeric column and a string column
FrameColumns == {"Quantity", "Name"}

FrameRowValues ==
    [Quantity : {None, Num(5)}, Name : {None, Str("bolt")}]

FrameValues == UNION {[1..n -> FrameRowValues] : n \in 0..MaxRows}

CleanDataframe ==
    /\ \E df \in FrameValues :
          /\ utilArgs' = df
          /\ utilValue' = CleanFrame(df, FrameColumns)
    /\ utilCall' = "clean_dataframe"
    /\ UNCHANGED <<cacheAdminVars, analyticsVars>>

NextUtil ==
    \/ CalculateGrowthRate
    \/ SafeDivide
    \/ GetExecutiveSummary
    \/ CacheStoreTimeout
    \/ EvalReorderCalculations
    \/ CleanDataframe

SpecUtil == InitUtil /\ [][NextUtil]_vars

IsMissing(df, i, c) == df[i][c].kind = "null"

\* C17: clean_dataframe replaces every null numeric field by 0 and every
\* null string field by the empty string, keeps every row in its place and
\* leaves non-null values unchanged.
C17_NullsDefaultedRowsKept ==
    utilCall = "clean_dataframe" =>
        /\ Len(utilValue) = Len(utilArgs)
        /\ \A i \in DOMAIN utilArgs :
              /\ utilValue[i].Quantity =
                    IF IsMissing(utilArgs, i, "Quantity") THEN Num(0)
                    ELSE utilArgs[i].Quantity
              /\ utilValue[i].Name =
                    IF IsMissing(utilArgs, i, "Name") THEN Str("")
                    ELSE utilArgs[i].Name

\* ------------------------------------------------------------------------
\* Cache administration (routes/cache_admin.py)
\* ------------------------------------------------------------------------

\* the prefixes clear_specific_cache lists for each cache type
cache_prefixes ==
    [financial |-> {"financial_"}, inventory |-> {"inventory_"},
     sales |-> {"sales_"}, dashboard |-> {"dashboard_"}]

\* the cache types a request path can name: the four listed ones and two
\* that are not listed
CacheTypeValues == DOMAIN cache_prefixes \cup {"purchase", "all"}

\* the values a decorated function can return and store
CachedValues == {"first", "second"}

\* every variable but those holding cache entries and the admin response
exceptCacheVars ==
    <<articulos, reorderRows, reorderResult, reorderCall, riskVars, abcVars,
      velocityVars, forecastVars, purchaseApiVars, utilVars>>

\* cache.clear(): every entry of the cache is removed, those of the
\* decorated functions and those get_reorder_analysis sets
cache_clear ==
    /\ cacheStore' = [k \in DOMAIN cacheStore |-> <<>>]
    /\ cache' = [d \in DOMAIN cache |-> <<>>]

\* POST /api/admin/cache/clear
clear_all_cache ==
    /\ cache_clear
    /\ adminResponse' = [endpoint |-> "clear_all_cache", cache_type |-> "",
                         status |-> "success", code |-> 200]
    /\ UNCHANGED exceptCacheVars

\* POST /api/admin/cache/clear/<cache_type>
clear_specific_cache(cache_type) ==
    /\ IF cache_type \notin DOMAIN cache_prefixes
       THEN /\ adminResponse' = [endpoint |-> "clear_specific_cache",
                                 cache_type |-> cache_type,
                                 status |-> "error", code |-> 400]
            /\ UNCHANGED <<cacheStore, cache>>
       ELSE /\ cache_clear
            /\ adminResponse' = [endpoint |-> "clear_specific_cache",
                                 cache_type |-> cache_type,
                                 status |-> "success", code |-> 200]
    /\ UNCHANGED exceptCacheVars

\* GET /api/admin/cache/test: the test value is set, read back and returned
test_cache ==
    /\ cacheStore' = [cacheStore EXCEPT !["cache_test_key"] = <<"Cache is working">>]
    /\ adminResponse' = [endpoint |-> "test_cache", cache_type |-> "",
                         status |-> "success", code |-> 200]
    /\ UNCHANGED <<cache, exceptCacheVars>>

\* a function under @cache.cached(key_prefix=key) is called while nothing
\* is stored under key: its body runs and the value it returns is stored
CachedCall ==
    /\ \E key \in CacheKeys \ {"cache_test_key"}, rv \in CachedValues :
          /\ cacheStore[key] = <<>>
          /\ cacheStore' = [cacheStore EXCEPT ![key] = <<rv>>]
    /\ UNCHANGED <<adminResponse, cache, exceptCacheVars>>

\* the timeout of an entry passes
CacheEntryTimeout ==
    /\ \E k \in DOMAIN cacheStore :
          /\ cacheStore[k] # <<>>
          /\ cacheStore' = [cacheStore EXCEPT ![k] = <<>>]
    /\ UNCHANGED <<adminResponse, cache, exceptCacheVars>>

ClearAllCache == clear_all_cache

ClearSpecificCache == \E cache_type \in CacheTypeValues : clear_specific_cache(cache_type)

TestCache == test_cache

InitCacheAdmin ==
    /\ articulos = <<>>
    /\ reorderRows = <<>>
    /\ reorderResult = <<>>
    /\ reorderCall = "none"
    /\ cache = [d \in DemandDaysValues |-> <<>>]
    /\ IdleRisk
    /\ IdleAbc
    /\ IdleVelocity
    /\ IdleForecast
    /\ IdlePurchaseApi
    /\ IdleUtil
    /\ cacheStore = [k \in CacheKeys |-> <<>>]
    /\ adminResponse = <<>>

NextCacheAdmin ==
    \/ CachedCall
    \/ TestCache
    \/ ClearAllCache
    \/ ClearSpecificCache
    \/ CacheEntryTimeout

SpecCacheAdmin == InitCacheAdmin /\ [][NextCacheAdmin]_vars

\* the prefix of a cache key: the text up to and including its first "_"
KeyPrefix(key) ==
    CASE key \in {"financial_exec_summary", "financial_credit_risk"} -> "financial_"
      [] key \in {"inventory_abc", "inventory_alerts"} -> "inventory_"
      [] key = "purchase_supplier_performance" -> "purchase_"
      [] key = "cache_test_key" -> "cache_"

\* whether the entry under key is one of cache type T
EntryOfType(key, T) == KeyPrefix(key) \in cache_prefixes[T]

\* C18: clear_specific_cache(T) for a valid type T clears the cached
\* entries of type T and leaves the cached entries of every other type
\* unchanged; for an invalid type it answers 400 and removes no entry.
C18_ClearsOnlyEntriesOfType ==
    [][\A T \in CacheTypeValues :
          clear_specific_cache(T) =>
              IF T \in DOMAIN cache_prefixes
              THEN \A key \in DOMAIN cacheStore :
                      cacheStore'[key] = IF EntryOfType(key, T) THEN <<>>
                                         ELSE cacheStore[key]
              ELSE /\ adminResponse'.code = 400
                   /\ cacheStore' = cacheStore]_vars

====
